---------------------------- MODULE Spec2Model ----------------------------
(***************************************************************************)
(* Dish Finder: the review-to-dish extraction and ranking engine           *)
(* (server/services/dishAnalyzer.js).  Review texts are strings; the       *)
(* regular expressions of the source are interpreted character by          *)
(* character by a backtracking matcher that has JavaScript's priorities    *)
(* (leftmost match, ordered alternation, greedy and lazy quantifiers).     *)
(* Numbers the source keeps as floating point are kept as exact rationals  *)
(* <<numerator, denominator>> in lowest terms.                             *)
(***************************************************************************)
EXTENDS Integers, Sequences, FiniteSets, TLC

(***************************************************************************)
(* Bounds of the model.                                                    *)
(***************************************************************************)
\* longest review sequence handed to getTopDishes
MaxReviews == 2
\* largest bound a caller may ask for (the code takes no such argument)
MaxTopN == 3
\* the longest review sequence of each of two interleaved invocations
MaxPairReviews == 2
\* how many searches are queued offline at most
MaxSearches == 2

(***************************************************************************)
(* Characters and strings.                                                 *)
(***************************************************************************)
Upper == "ABCDEFGHIJKLMNOPQRSTUVWXYZ"
Lower == "abcdefghijklmnopqrstuvwxyz"
Digits == "0123456789_"

CharsOf(s) == { SubSeq(s, i, i) : i \in 1..Len(s) }

\* \w of the source's regular expressions
WordChars == CharsOf(Upper) \cup CharsOf(Lower) \cup CharsOf(Digits)
\* \s of the source's regular expressions (the whitespace the corpus uses)
SpaceChars == {" ", "\t"}

At(s, i) == SubSeq(s, i, i)

LowerOf == [c \in CharsOf(Upper) |->
              LET i == CHOOSE k \in 1..Len(Upper) : At(Upper, k) = c IN At(Lower, i)]
UpperOf == [c \in CharsOf(Lower) |->
              LET i == CHOOSE k \in 1..Len(Lower) : At(Lower, k) = c IN At(Upper, i)]

LowerChar(c) == IF c \in CharsOf(Upper) THEN LowerOf[c] ELSE c
UpperChar(c) == IF c \in CharsOf(Lower) THEN UpperOf[c] ELSE c

RECURSIVE MapChars(_, _, _, _)
\* the characters lo..hi of s, each replaced by what `kind` makes of it (by
\* halves, to keep the evaluation shallow)
MapChars(s, lo, hi, kind) ==
  IF lo > hi THEN ""
  ELSE IF lo = hi
       THEN CASE kind = "lower" -> LowerChar(At(s, lo))
              [] kind = "upper" -> UpperChar(At(s, lo))
              [] kind = "strip" ->
                   IF At(s, lo) \in WordChars \cup SpaceChars THEN At(s, lo) ELSE ""
              [] kind = "collapse" ->
                   IF At(s, lo) \in SpaceChars
                   THEN (IF lo > 1 /\ At(s, lo - 1) \in SpaceChars THEN "" ELSE " ")
                   ELSE At(s, lo)
       ELSE LET mid == (lo + hi) \div 2
            IN  MapChars(s, lo, mid, kind) \o MapChars(s, mid + 1, hi, kind)

\* String.prototype.toLowerCase
toLowerCase(s) == MapChars(s, 1, Len(s), "lower")
\* String.prototype.toUpperCase
toUpperCase(s) == MapChars(s, 1, Len(s), "upper")

\* String.prototype.slice(a, b) with 0 <= a, b (JavaScript's 0-based, end-exclusive)
slice(s, a, b) ==
  LET e == IF b > Len(s) THEN Len(s) ELSE b
  IN  IF a >= e THEN "" ELSE SubSeq(s, a + 1, e)

\* String.prototype.includes
includes(s, w) ==
  \E i \in 1..(Len(s) - Len(w) + 1) : SubSeq(s, i, i + Len(w) - 1) = w

(***************************************************************************)
(* Regular expressions.  A pattern is a tree of records; Match returns     *)
(* the ways the pattern matches at a position, in the order a             *)
(* backtracking matcher tries them, so the head is the match JavaScript    *)
(* reports.  A result is [e |-> position after the match, c |-> the        *)
(* capture groups], a group being <<start, end>> or <<0, 0>> if unset.     *)
(***************************************************************************)
Lit(s) == [t |-> "lit", s |-> s]
Cls(S) == [t |-> "cls", set |-> S]
Cat(xs) == [t |-> "cat", xs |-> xs]
Alt(xs) == [t |-> "alt", xs |-> xs]
Rep(x, lo, hi, greedy) == [t |-> "rep", x |-> x, lo |-> lo, hi |-> hi, greedy |-> greedy]
Grp(n, x) == [t |-> "grp", n |-> n, x |-> x]
WB == [t |-> "wb"]

\* no upper limit of a quantifier: longer than any review of the corpus
Inf == 1000
Opt(x) == Rep(x, 0, 1, TRUE)
Plus(x) == Rep(x, 1, Inf, TRUE)
Star(x) == Rep(x, 0, Inf, TRUE)
LazyPlus(x) == Rep(x, 1, Inf, FALSE)
Words(ws) == Alt([i \in 1..Len(ws) |-> Lit(ws[i])])

W == Cls(WordChars)
S == Cls(SpaceChars)
WS == Cls(WordChars \cup SpaceChars)

NoCaps == <<<<0, 0>>, <<0, 0>>, <<0, 0>>, <<0, 0>>>>

IsWordAt(text, i) == i >= 1 /\ i <= Len(text) /\ At(text, i) \in WordChars

RECURSIVE Match(_, _, _, _)
RECURSIVE MatchCat(_, _, _, _, _)
RECURSIVE MatchAlt(_, _, _, _, _)
RECURSIVE MatchRep(_, _, _, _, _)
RECURSIVE MatchEach(_, _, _, _, _, _)

\* how many characters from pos on belong to set
RunLength(text, pos, set) ==
  LET ends == { n \in 0..(Len(text) - pos + 1) :
                  \A k \in 0..(n - 1) : At(text, pos + k) \in set }
  IN  CHOOSE n \in ends : \A m \in ends : m <= n

\* a quantified character class: the counts it may take, a greedy one the
\* longest first, a lazy one the shortest first
MatchClassRep(node, text, pos, caps) ==
  LET run == RunLength(text, pos, node.x.set)
      top == IF run < node.hi THEN run ELSE node.hi
      n == IF top < node.lo THEN 0 ELSE top - node.lo + 1
  IN  [k \in 1..n |->
         [e |-> pos + (IF node.greedy THEN top - k + 1 ELSE node.lo + k - 1),
          c |-> caps]]

\* the results of node at pos (case-insensitive: the source's flags are gi)
Match(node, text, pos, caps) ==
  CASE node.t = "lit" ->
         LET n == Len(node.s) IN
         IF pos + n - 1 <= Len(text) /\ toLowerCase(SubSeq(text, pos, pos + n - 1)) = node.s
         THEN <<[e |-> pos + n, c |-> caps]>> ELSE <<>>
    [] node.t = "cls" ->
         IF pos <= Len(text) /\ At(text, pos) \in node.set
         THEN <<[e |-> pos + 1, c |-> caps]>> ELSE <<>>
    [] node.t = "wb" ->
         IF IsWordAt(text, pos - 1) # IsWordAt(text, pos)
         THEN <<[e |-> pos, c |-> caps]>> ELSE <<>>
    [] node.t = "grp" ->
         LET rs == Match(node.x, text, pos, caps) IN
         [k \in 1..Len(rs) |->
            [e |-> rs[k].e, c |-> [rs[k].c EXCEPT ![node.n] = <<pos, rs[k].e>>]]]
    [] node.t = "alt" -> MatchAlt(node.xs, 1, text, pos, caps)
    [] node.t = "cat" -> MatchCat(node.xs, 1, text, pos, caps)
    [] node.t = "rep" ->
         IF node.x.t = "cls" THEN MatchClassRep(node, text, pos, caps)
         ELSE MatchRep(node, 0, text, pos, caps)

\* the alternatives xs[k..], in order
MatchAlt(xs, k, text, pos, caps) ==
  IF k > Len(xs) THEN <<>>
  ELSE Match(xs[k], text, pos, caps) \o MatchAlt(xs, k + 1, text, pos, caps)

\* for each result rs[lo..hi] (in order), what `rest` yields after it; rest is
\* <<"cat", xs, k>> (continue a concatenation) or <<"rep", node, count, pos>>
\* (iterate again, if the iteration consumed something)
MatchEach(rs, lo, hi, rest, text, caps) ==
  IF lo > hi THEN <<>>
  ELSE IF lo = hi
       THEN IF rest[1] = "cat"
            THEN MatchCat(rest[2], rest[3], text, rs[lo].e, rs[lo].c)
            ELSE IF rs[lo].e > rest[4]
                 THEN MatchRep(rest[2], rest[3], text, rs[lo].e, rs[lo].c)
                 ELSE <<>>
       ELSE LET mid == (lo + hi) \div 2
            IN  MatchEach(rs, lo, mid, rest, text, caps)
                \o MatchEach(rs, mid + 1, hi, rest, text, caps)

\* the concatenation xs[k..]
MatchCat(xs, k, text, pos, caps) ==
  IF k > Len(xs) THEN <<[e |-> pos, c |-> caps]>>
  ELSE LET rs == Match(xs[k], text, pos, caps)
       IN  MatchEach(rs, 1, Len(rs), <<"cat", xs, k + 1>>, text, caps)

\* a quantifier that has made `count` iterations: a greedy one tries another
\* iteration before stopping, a lazy one stops first
MatchRep(node, count, text, pos, caps) ==
  LET rs == Match(node.x, text, pos, caps)
      more == IF count < node.hi
              THEN MatchEach(rs, 1, Len(rs), <<"rep", node, count + 1, pos>>, text, caps)
              ELSE <<>>
      stop == IF count >= node.lo THEN <<[e |-> pos, c |-> caps]>> ELSE <<>>
  IN  IF node.greedy THEN more \o stop ELSE stop \o more

RECURSIVE matchAll(_, _, _)
\* String.prototype.matchAll of a global pattern, from position `from`:
\* the leftmost match, then the search resumes after it
matchAll(re, text, from) ==
  LET starts == { i \in from..(Len(text) + 1) : Match(re, text, i, NoCaps) # <<>> } IN
  IF starts = {} THEN <<>>
  ELSE LET i == CHOOSE k \in starts : \A j \in starts : k <= j
           r == Match(re, text, i, NoCaps)[1]
       IN  <<[s |-> i, e |-> r.e, c |-> r.c]>>
           \o matchAll(re, text, IF r.e = i THEN i + 1 ELSE r.e)

\* match[n]: "" stands for undefined too (both are falsy in match[2] || match[1])
GroupText(text, m, n) ==
  IF n = 0 THEN SubSeq(text, m.s, m.e - 1)
  ELSE IF m.c[n][1] = 0 THEN "" ELSE SubSeq(text, m.c[n][1], m.c[n][2] - 1)

(***************************************************************************)
(* Exact rationals <<n, d>>, d > 0, in lowest terms.                       *)
(***************************************************************************)
Abs(n) == IF n < 0 THEN -n ELSE n

RECURSIVE GCD(_, _)
GCD(a, b) == IF b = 0 THEN a ELSE GCD(b, a % b)

Rat(n, d) == LET g == GCD(Abs(n), d) IN <<n \div g, d \div g>>
RatAdd(a, b) == Rat(a[1] * b[2] + b[1] * a[2], a[2] * b[2])
RatDiv(a, k) == Rat(a[1], a[2] * k)
RatMul(a, k) == Rat(a[1] * k, a[2])
RatLess(a, b) == a[1] * b[2] < b[1] * a[2]
RatLeq(a, b) == a[1] * b[2] <= b[1] * a[2]
RatMax(a, b) == IF RatLess(a, b) THEN b ELSE a
RatMin(a, b) == IF RatLess(b, a) THEN b ELSE a
Zero == <<0, 1>>
One == <<1, 1>>
Half == <<1, 2>>

(***************************************************************************)
(* The tables of the analyzer.                                             *)
(***************************************************************************)
\* the capture group each template's comment names as the dish
DishGroup == <<2, 2, 1, 1, 1>>

DISH_PATTERNS == <<
  Cat(<<WB, Grp(1, Words(<<"the", "their", "try", "order", "had", "get">>)), Plus(S),
        Grp(2, LazyPlus(WS)), Plus(S),
        Grp(3, Words(<<"is", "was", "were", "are">>)), Plus(S),
        Grp(4, Words(<<"amazing", "delicious", "excellent", "great", "fantastic",
                       "incredible", "perfect">>))>>),
  Cat(<<WB, Grp(1, Words(<<"loved", "love", "enjoyed", "recommend">>)), Plus(S),
        Opt(Words(<<"the", "their">>)), Star(S),
        Grp(2, Rep(WS, 3, 30, TRUE))>>),
  Cat(<<WB, Lit("best"), Plus(S),
        Grp(1, Rep(WS, 3, 25, TRUE)), Plus(S),
        Grp(2, Words(<<"i've", "i've", "ever", "in town", "around">>))>>),
  Cat(<<WB, Lit("must"), Cls(SpaceChars \cup {"-"}), Lit("try"), Plus(S),
        Opt(Words(<<"the", "their">>)), Star(S),
        Grp(1, Rep(WS, 3, 30, TRUE))>>),
  Cat(<<WB, Grp(1, Rep(WS, 3, 25, TRUE)), Plus(S),
        Grp(2, Words(<<"is", "was">>)), Plus(S),
        Grp(3, Words(<<"incredible", "amazing", "outstanding", "phenomenal">>))>>)
>>

DISH_KEYWORDS == <<
  "burger", "pizza", "pasta", "steak", "salad", "soup", "sandwich",
  "tacos", "burrito", "sushi", "roll", "ramen", "noodles", "rice",
  "chicken", "beef", "pork", "fish", "shrimp", "lobster", "crab",
  "curry", "pad thai", "wings", "ribs", "brisket", "fries",
  "breakfast", "pancakes", "waffles", "eggs", "omelette", "benedict",
  "cake", "pie", "cheesecake", "brownie", "ice cream", "dessert",
  "appetizer", "special", "combo", "platter", "bowl", "wrap" >>

\* the scores, in hundredths, in the order Object.entries lists them
SENTIMENT_POSITIVE == <<
  <<"amazing", 90>>, <<"excellent", 90>>, <<"incredible", 95>>, <<"outstanding", 95>>,
  <<"delicious", 85>>, <<"fantastic", 85>>, <<"wonderful", 85>>, <<"perfect", 95>>,
  <<"great", 75>>, <<"good", 65>>, <<"nice", 60>>, <<"tasty", 75>>, <<"fresh", 70>>,
  <<"loved", 85>>, <<"best", 90>>, <<"favorite", 85>>, <<"recommend", 80>>,
  <<"must-try", 90>>, <<"phenomenal", 95>>, <<"superb", 90>> >>

SENTIMENT_NEGATIVE == <<
  <<"terrible", -90>>, <<"awful", -90>>, <<"horrible", -90>>, <<"disgusting", -95>>,
  <<"bad", -70>>, <<"disappointing", -60>>, <<"mediocre", -40>>, <<"bland", -50>>,
  <<"cold", -40>>, <<"overpriced", -50>>, <<"avoid", -80>>, <<"worst", -95>> >>

invalidWords == {
  "the", "and", "but", "this", "that", "they", "them", "their",
  "here", "there", "place", "restaurant", "service", "staff",
  "waiter", "waitress", "server", "atmosphere", "ambiance",
  "time", "night", "day", "week", "month", "year" }

(***************************************************************************)
(* cleanDishName                                                           *)
(***************************************************************************)
\* .replace(/[^\w\s]/g, '')
StripNonWord(s) == MapChars(s, 1, Len(s), "strip")

\* .replace(/\s+/g, ' ')
CollapseSpace(s) == MapChars(s, 1, Len(s), "collapse")

RECURSIVE trim(_)
\* String.prototype.trim
trim(s) ==
  IF s = "" THEN ""
  ELSE IF At(s, 1) \in SpaceChars THEN trim(SubSeq(s, 2, Len(s)))
  ELSE IF At(s, Len(s)) \in SpaceChars THEN trim(SubSeq(s, 1, Len(s) - 1))
  ELSE s

RECURSIVE SplitFrom(_, _, _)
\* the pieces of s from position i on, cur being the piece under way
SplitFrom(s, i, cur) ==
  IF i > Len(s) THEN <<cur>>
  ELSE IF At(s, i) = " " THEN <<cur>> \o SplitFrom(s, i + 1, "")
  ELSE SplitFrom(s, i + 1, cur \o At(s, i))

\* String.prototype.split(' ')
split(s) == SplitFrom(s, 1, "")

RECURSIVE join(_, _)
\* Array.prototype.join(' ') of ws[k..]
join(ws, k) ==
  IF k > Len(ws) THEN ""
  ELSE IF k = Len(ws) THEN ws[k]
  ELSE ws[k] \o " " \o join(ws, k + 1)

\* Capitalize with the upper-casing forgotten
CapitalizeNone(word) == word

\* word.charAt(0).toUpperCase() + word.slice(1)
Capitalize(word) == toUpperCase(slice(word, 0, 1)) \o slice(word, 1, Len(word))

\* cleanDishName without .trim()
cleanDishNameNoTrim(name) ==
  IF name = "" THEN ""
  ELSE LET words == split(CollapseSpace(StripNonWord(toLowerCase(name))))
       IN  join([k \in 1..Len(words) |-> Capitalize(words[k])], 1)

\* lines 205-215
cleanDishName(name) ==
  IF name = "" THEN ""
  ELSE LET words == split(trim(CollapseSpace(StripNonWord(toLowerCase(name)))))
       IN  join([k \in 1..Len(words) |-> Capitalize(words[k])], 1)

(***************************************************************************)
(* isValidDishName                                                         *)
(***************************************************************************)
\* isValidDishName without the test against invalidWords
isValidDishNameNoStopWords(name) ==
  IF name = "" \/ Len(name) < 3 \/ Len(name) > 40 THEN FALSE
  ELSE LET words == split(toLowerCase(name)) IN
       IF Len(words) > 5 THEN FALSE
       ELSE TRUE

isValidDishName(name) ==
  IF name = "" \/ Len(name) < 3 \/ Len(name) > 40 THEN FALSE
  ELSE LET words == split(toLowerCase(name)) IN
       IF \A k \in 1..Len(words) : words[k] \in invalidWords THEN FALSE
       ELSE IF Len(words) > 5 THEN FALSE
       ELSE TRUE

(***************************************************************************)
(* calculateSentiment                                                      *)
(***************************************************************************)
RECURSIVE SumScores(_, _)
\* the sum of the scores of the lexicon entries whose indices are in ks
SumScores(lexicon, ks) ==
  IF ks = {} THEN 0
  ELSE LET k == CHOOSE j \in ks : TRUE
       IN  lexicon[k][2] + SumScores(lexicon, ks \ {k})

\* the loop over a lexicon's entries, from acc = <<totalScore, scoreCount>>:
\* every entry whose word the text includes adds its score and counts once
ScoreWords(lowerText, lexicon, acc) ==
  LET hit == { k \in 1..Len(lexicon) : includes(lowerText, lexicon[k][1]) }
  IN  <<acc[1] + SumScores(lexicon, hit), acc[2] + Cardinality(hit)>>

\* SentimentTotals with the baseline counted as a score (scoreCount from 1)
SentimentTotalsSeedCounted(text) ==
  LET lowerText == toLowerCase(text) IN
  ScoreWords(lowerText, SENTIMENT_NEGATIVE,
             ScoreWords(lowerText, SENTIMENT_POSITIVE, <<50, 1>>))

\* <<totalScore in hundredths, scoreCount>> after both loops
SentimentTotals(text) ==
  LET lowerText == toLowerCase(text) IN
  ScoreWords(lowerText, SENTIMENT_NEGATIVE,
             ScoreWords(lowerText, SENTIMENT_POSITIVE, <<50, 0>>))

\* Clamp with the clamping forgotten
ClampNone(v) == v

\* Math.max(0, Math.min(1, v))
Clamp(v) == RatMax(Zero, RatMin(One, v))

\* calculateSentiment without the return of 0.5 for scoreCount 0: 0.5 / 0
\* is Infinity, which the clamp takes to 1
calculateSentimentNoNeutral(text, dishName) ==
  LET tot == SentimentTotals(text) IN
  IF tot[2] = 0 THEN One
  ELSE Clamp(Rat(tot[1], 100 * tot[2]))

calculateSentiment(text, dishName) ==
  LET tot == SentimentTotals(text) IN
  IF tot[2] = 0 THEN Half
  ELSE Clamp(Rat(tot[1], 100 * tot[2]))

(***************************************************************************)
(* extractDishMentions.  A Map is a sequence of entries in insertion       *)
(* order, which is the order a Map is iterated in.                         *)
(***************************************************************************)
IndexOf(map, name) ==
  IF \E k \in 1..Len(map) : map[k].name = name
  THEN CHOOSE k \in 1..Len(map) : map[k].name = name
  ELSE 0

Has(map, name) == IndexOf(map, name) # 0

\* match[2] || match[1]
RawCandidate(text, m) ==
  IF GroupText(text, m, 2) # "" THEN GroupText(text, m, 2) ELSE GroupText(text, m, 1)

\* the body of the loop over one pattern's matches
\* AddPatternMatch with the sentiments of a repeated candidate summed and
\* not halved
AddPatternMatchSumming(dishes, text, m) ==
  LET dishName == cleanDishName(RawCandidate(text, m)) IN
  IF isValidDishName(dishName)
  THEN LET sentiment == calculateSentiment(text, dishName)
           k == IndexOf(dishes, dishName)
       IN  IF k # 0
           THEN [dishes EXCEPT ![k].count = @ + 1,
                               ![k].sentiment = RatAdd(@, sentiment)]
           ELSE Append(dishes, [name |-> dishName, count |-> 1, sentiment |-> sentiment,
                                sampleReview |-> slice(text, 0, 200)])
  ELSE dishes

AddPatternMatch(dishes, text, m) ==
  LET dishName == cleanDishName(RawCandidate(text, m)) IN
  IF isValidDishName(dishName)
  THEN LET sentiment == calculateSentiment(text, dishName)
           k == IndexOf(dishes, dishName)
       IN  IF k # 0
           THEN [dishes EXCEPT ![k].count = @ + 1,
                               ![k].sentiment = RatDiv(RatAdd(@, sentiment), 2)]
           ELSE Append(dishes, [name |-> dishName, count |-> 1, sentiment |-> sentiment,
                                sampleReview |-> slice(text, 0, 200)])
  ELSE dishes

RECURSIVE PatternMatches(_, _, _, _)
PatternMatches(dishes, text, ms, j) ==
  IF j > Len(ms) THEN dishes
  ELSE PatternMatches(AddPatternMatch(dishes, text, ms[j]), text, ms, j + 1)

RECURSIVE PatternLoop(_, _, _)
\* Method 1: the patterns p.., each over the original text
PatternLoop(dishes, text, p) ==
  IF p > Len(DISH_PATTERNS) THEN dishes
  ELSE PatternLoop(PatternMatches(dishes, text, matchAll(DISH_PATTERNS[p], text, 1), 1),
                   text, p + 1)

\* new RegExp(`(\\w+\\s+)?${keyword}(\\s+\\w+)?`, 'gi')
KeywordRegex(keyword) ==
  Cat(<<Opt(Grp(1, Cat(<<Plus(W), Plus(S)>>))), Lit(keyword),
        Opt(Grp(2, Cat(<<Plus(S), Plus(W)>>)))>>)

\* AddKeywordMatch merging into an existing mention as the pattern loop does
AddKeywordMatchCounting(dishes, text, lowerText, m) ==
  LET dishName == cleanDishName(GroupText(lowerText, m, 0)) IN
  IF isValidDishName(dishName)
  THEN LET sentiment == calculateSentiment(text, dishName)
           k == IndexOf(dishes, dishName)
       IN  IF k # 0
           THEN [dishes EXCEPT ![k].count = @ + 1,
                               ![k].sentiment = RatDiv(RatAdd(@, sentiment), 2)]
           ELSE Append(dishes, [name |-> dishName, count |-> 1, sentiment |-> sentiment,
                                sampleReview |-> slice(text, 0, 200)])
  ELSE dishes

\* the body of the loop over one keyword's matches
AddKeywordMatch(dishes, text, lowerText, m) ==
  LET dishName == cleanDishName(GroupText(lowerText, m, 0)) IN
  IF isValidDishName(dishName) /\ ~Has(dishes, dishName)
  THEN Append(dishes, [name |-> dishName, count |-> 1,
                       sentiment |-> calculateSentiment(text, dishName),
                       sampleReview |-> slice(text, 0, 200)])
  ELSE dishes

RECURSIVE KeywordMatches(_, _, _, _, _)
KeywordMatches(dishes, text, lowerText, ms, j) ==
  IF j > Len(ms) THEN dishes
  ELSE KeywordMatches(AddKeywordMatch(dishes, text, lowerText, ms[j]),
                      text, lowerText, ms, j + 1)

RECURSIVE KeywordLoop(_, _, _, _, _)
\* Method 2: the keywords kws[k..], each over the lower-cased text
KeywordLoop(dishes, text, lowerText, kws, k) ==
  IF k > Len(kws) THEN dishes
  ELSE KeywordLoop(KeywordMatches(dishes, text, lowerText,
                                  matchAll(KeywordRegex(kws[k]), lowerText, 1), 1),
                   text, lowerText, kws, k + 1)

\* the keywords the loop does not skip: those the lower-cased text includes
PresentKeywords(lowerText) ==
  SelectSeq(DISH_KEYWORDS, LAMBDA keyword : includes(lowerText, keyword))

extractDishMentions(text) ==
  LET lowerText == toLowerCase(text) IN
  KeywordLoop(PatternLoop(<<>>, text, 1), text, lowerText, PresentKeywords(lowerText), 1)

(***************************************************************************)
(* DISH_PATTERNS holds module-level pattern objects with the g flag, each  *)
(* with a lastIndex that outlives a call.  text.matchAll(pattern) works on *)
(* a clone of the pattern that starts at the pattern's lastIndex and       *)
(* leaves the pattern itself alone.  The keyword patterns are made anew    *)
(* for every use.                                                          *)
(***************************************************************************)
\* the lastIndex of every pattern when the module is loaded
FreshLastIndex == [p \in 1..Len(DISH_PATTERNS) |-> 0]

RECURSIVE PatternLoopAt(_, _, _, _)
\* Method 1 when the patterns' lastIndex is li
PatternLoopAt(dishes, text, p, li) ==
  IF p > Len(DISH_PATTERNS) THEN dishes
  ELSE PatternLoopAt(PatternMatches(dishes, text,
                                    matchAll(DISH_PATTERNS[p], text, li[p] + 1), 1),
                     text, p + 1, li)

\* extractDishMentions when the patterns' lastIndex is li
extractDishMentionsAt(text, li) ==
  LET lowerText == toLowerCase(text) IN
  KeywordLoop(PatternLoopAt(<<>>, text, 1, li), text, lowerText,
              PresentKeywords(lowerText), 1)

\* what pattern.test(text) would leave in each pattern's lastIndex: the end
\* of the first match from lastIndex on, 0 when there is none
LastIndexAfterTest(text, li) ==
  [p \in 1..Len(DISH_PATTERNS) |->
     LET ms == matchAll(DISH_PATTERNS[p], text, li[p] + 1)
     IN  IF ms = <<>> THEN 0 ELSE ms[1].e - 1]

(***************************************************************************)
(* The inputs: review records as the places provider returns them.  A      *)
(* record may lack its text (hasText = FALSE), carry the empty string, or  *)
(* carry a text that is no string (isString = FALSE: the number 42).       *)
(***************************************************************************)
\* a review of more than 200 characters
LongReview ==
  "We came late on a rainy night and had to wait for a table near the door, "
    \o "the room was loud and the chairs were hard, yet the bowls came out hot "
    \o "and the broth was rich and deep, so in the end we all loved the pizza"

Corpus == {
  "The burger was amazing, best burger ever",
  "Loved the burger here",
  "great service, friendly staff",
  "the pizza was amazing",
  "loved the pizza",
  "Enjoyed the pizza. Love the pizza. Enjoyed pizza. Love pizza. Enjoyed the pizza. Pizza!",
  "recommend the ramen. enjoyed the ramen. good, great",
  "The soup was cold and bland",
  "Must try the spicy  tuna roll, best ramen in town, fresh sushi!",
  "ordered 2 tacos",
  "Enjoyed the staff and the service. Good pizza, good pasta, cold soup",
  LongReview }

ReviewSet ==
  { [hasText |-> TRUE, isString |-> TRUE, text |-> t] : t \in Corpus \cup {""} }
    \cup { [hasText |-> FALSE, isString |-> FALSE, text |-> ""],
           [hasText |-> TRUE, isString |-> FALSE, text |-> "42"] }

\* extractDishMentions of every text of the corpus, computed once
MentionTable == { <<t, extractDishMentions(t)>> : t \in Corpus }

Mentions(text) == (CHOOSE p \in MentionTable : p[1] = text)[2]

\* extractDishMentions of a text of the corpus when the patterns' lastIndex is li
MentionsAt(text, li) ==
  IF li = FreshLastIndex THEN Mentions(text) ELSE extractDishMentionsAt(text, li)

(***************************************************************************)
(* analyzeReviews                                                          *)
(***************************************************************************)
\* MergeMention with existing.reviewCount++ forgotten
MergeMentionNoReviewCount(all, data) ==
  LET k == IndexOf(all, data.name) IN
  IF k # 0
  THEN [all EXCEPT ![k] =
          [@ EXCEPT !.mentionCount = @ + data.count,
                    !.totalSentiment = RatAdd(@, data.sentiment),
                    !.bestSentiment =
                       IF RatLess(all[k].bestSentiment, data.sentiment)
                       THEN data.sentiment ELSE @,
                    !.sampleReview =
                       IF RatLess(all[k].bestSentiment, data.sentiment)
                       THEN data.sampleReview ELSE @]]
  ELSE Append(all, [name |-> data.name,
                    mentionCount |-> data.count,
                    totalSentiment |-> data.sentiment,
                    reviewCount |-> 1,
                    bestSentiment |-> data.sentiment,
                    sampleReview |-> data.sampleReview])

\* MergeMention with >= for > in the test against bestSentiment
MergeMentionLastWins(all, data) ==
  LET k == IndexOf(all, data.name) IN
  IF k # 0
  THEN [all EXCEPT ![k] =
          [@ EXCEPT !.mentionCount = @ + data.count,
                    !.totalSentiment = RatAdd(@, data.sentiment),
                    !.reviewCount = @ + 1,
                    !.bestSentiment =
                       IF RatLeq(all[k].bestSentiment, data.sentiment)
                       THEN data.sentiment ELSE @,
                    !.sampleReview =
                       IF RatLeq(all[k].bestSentiment, data.sentiment)
                       THEN data.sampleReview ELSE @]]
  ELSE Append(all, [name |-> data.name,
                    mentionCount |-> data.count,
                    totalSentiment |-> data.sentiment,
                    reviewCount |-> 1,
                    bestSentiment |-> data.sentiment,
                    sampleReview |-> data.sampleReview])

\* the body of the loop over one review's mentions (lines 278-296)
MergeMention(all, data) ==
  LET k == IndexOf(all, data.name) IN
  IF k # 0
  THEN [all EXCEPT ![k] =
          [@ EXCEPT !.mentionCount = @ + data.count,
                    !.totalSentiment = RatAdd(@, data.sentiment),
                    !.reviewCount = @ + 1,
                    !.bestSentiment =
                       IF RatLess(all[k].bestSentiment, data.sentiment)
                       THEN data.sentiment ELSE @,
                    !.sampleReview =
                       IF RatLess(all[k].bestSentiment, data.sentiment)
                       THEN data.sampleReview ELSE @]]
  ELSE Append(all, [name |-> data.name,
                    mentionCount |-> data.count,
                    totalSentiment |-> data.sentiment,
                    reviewCount |-> 1,
                    bestSentiment |-> data.sentiment,
                    sampleReview |-> data.sampleReview])

RECURSIVE MergeReview(_, _, _)
\* for (const [dishName, data] of reviewDishes), from entry j on
MergeReview(all, reviewDishes, j) ==
  IF j > Len(reviewDishes) THEN all
  ELSE MergeReview(MergeMention(all, reviewDishes[j]), reviewDishes, j + 1)

\* Array.from(allDishes.values()).map(...)
dishArray(all) ==
  [k \in 1..Len(all) |->
     [dishName |-> all[k].name,
      mentionCount |-> all[k].mentionCount,
      averageSentiment |-> RatDiv(all[k].totalSentiment, all[k].reviewCount),
      sampleReview |-> all[k].sampleReview]]

\* mentionCount * 0.6 + averageSentiment * 10 * 0.4
Score(d) == RatAdd(Rat(d.mentionCount * 6, 10), RatMul(d.averageSentiment, 4))

\* Insert with the comparator the other way round (scoreA - scoreB)
InsertAscending(sorted, d) ==
  LET n == Cardinality({ k \in 1..Len(sorted) : RatLeq(Score(sorted[k]), Score(d)) })
  IN  SubSeq(sorted, 1, n) \o <<d>> \o SubSeq(sorted, n + 1, Len(sorted))

\* Insert with d put in front of the entries of equal score (a sort that
\* turns ties round)
InsertBeforeTies(sorted, d) ==
  LET n == Cardinality({ k \in 1..Len(sorted) : RatLess(Score(d), Score(sorted[k])) })
  IN  SubSeq(sorted, 1, n) \o <<d>> \o SubSeq(sorted, n + 1, Len(sorted))

\* d put into a list sorted by the comparator scoreB - scoreA: behind every
\* entry whose score is not lower (Array.prototype.sort is stable)
Insert(sorted, d) ==
  LET n == Cardinality({ k \in 1..Len(sorted) : RatLeq(Score(d), Score(sorted[k])) })
  IN  SubSeq(sorted, 1, n) \o <<d>> \o SubSeq(sorted, n + 1, Len(sorted))

RECURSIVE SortByScore(_, _)
\* .sort((a, b) => scoreB - scoreA) of arr[1..n]
SortByScore(arr, n) ==
  IF n = 0 THEN <<>> ELSE Insert(SortByScore(arr, n - 1), arr[n])

\* the length of the returned list: .slice(0, 3)
TopCount == 3

\* RankDishes without .slice(0, 3)
RankDishesNoSlice(all) ==
  LET arr == dishArray(all) IN SortByScore(arr, Len(arr))

\* RankDishes with the slice taken before the sort
RankDishesSliceFirst(all) ==
  LET arr == slice(dishArray(all), 0, TopCount) IN SortByScore(arr, Len(arr))

\* lines 300-316: map, sort, slice
RankDishes(all) ==
  LET arr == dishArray(all) IN slice(SortByScore(arr, Len(arr)), 0, TopCount)

\* the generic recommendation of getTopDishes
Placeholder ==
  [dishName |-> "Chef's Special", mentionCount |-> 0,
   averageSentiment |-> <<7, 10>>, sampleReview |-> "Popular choice"]

RECURSIVE analyzeLoop(_, _, _)
\* for (const review of reviews) from review k on, over strings
analyzeLoop(all, revs, k) ==
  IF k > Len(revs) THEN all
  ELSE IF ~revs[k].hasText \/ revs[k].text = ""
  THEN analyzeLoop(all, revs, k + 1)
  ELSE analyzeLoop(MergeReview(all, Mentions(revs[k].text), 1), revs, k + 1)

\* analyzeReviews as a function of a sequence of records whose texts are strings
analyzeReviews(revs) == RankDishes(analyzeLoop(<<>>, revs, 1))

\* getTopDishes as a function of a sequence of records whose texts are strings
getTopDishes(revs) ==
  IF Len(revs) = 0 THEN <<>>
  ELSE LET dishes == analyzeReviews(revs) IN
       IF Len(dishes) = 0 THEN <<Placeholder>> ELSE dishes

\* the reviews of the two interleaved invocations
PairCorpus == { "the pizza was amazing", "loved the pizza" }

PairReviewSet ==
  { [hasText |-> TRUE, isString |-> TRUE, text |-> t] : t \in PairCorpus }
    \cup { [hasText |-> FALSE, isString |-> FALSE, text |-> ""] }

(***************************************************************************)
(* One call getTopDishes(reviews); a caller's wish topN is no argument of  *)
(* the function and is never read.                                         *)
(***************************************************************************)
VARIABLES reviews, topN, pc, idx, allDishes, result

rankerVars == <<reviews, topN, pc, idx, allDishes, result>>

(***************************************************************************)
(* Two invocations of getTopDishes, 1 and 2, in one module instance: the   *)
(* module-level lastIndex of the patterns, and per invocation its reviews, *)
(* its position, its loop index, its own allDishes and its result.         *)
(* overlap records that a step was taken while the other invocation was    *)
(* inside its loop.                                                        *)
(***************************************************************************)
VARIABLES lastIndex, callReviews, callPc, callIdx, callDishes, callResult, overlap

pairVars == <<lastIndex, callReviews, callPc, callIdx, callDishes, callResult, overlap>>

(***************************************************************************)
(* The client's offline queue and its two syncs: syncOfflineData of the    *)
(* page ("window") and syncOfflineSearches of the service worker           *)
(* ("worker").  online is the state of the network, offlineQueue the keys  *)
(* of the IndexedDB store, nextId its autoIncrement key, pushed how often  *)
(* the server has received each search at /api/sync/push, failedLog the    *)
(* searches logged as 'Failed to sync search'; per sync its position, the  *)
(* list it has read and its index into it.                                 *)
(***************************************************************************)
VARIABLES online, offlineQueue, nextId, pushed, failedLog, syncPc, syncPending, syncIdx

syncVars ==
  <<online, offlineQueue, nextId, pushed, failedLog, syncPc, syncPending, syncIdx>>

(***************************************************************************)
(* The client's request path: searchRestaurants of the page and the fetch  *)
(* handler of the service worker.  navigatorOnLine is navigator.onLine,    *)
(* networkUp whether a fetch reaches the server (the browser may report    *)
(* onLine with no route to the server, never the reverse), searches the    *)
(* keys of the IndexedDB store 'searches' whose entry is younger than an   *)
(* hour, apiCache the GET requests in the worker's API cache, queued the   *)
(* keys in the store 'offlineQueue' in the order they were added, answer   *)
(* what the last request was answered with.                                *)
(***************************************************************************)
VARIABLES navigatorOnLine, networkUp, searches, apiCache, queued, answer

clientVars == <<navigatorOnLine, networkUp, searches, apiCache, queued, answer>>

(***************************************************************************)
(* The server's SQLite cache behind POST /search.  now is the clock in     *)
(* seconds (strftime('%s','now')), restaurants the table of that name, one *)
(* row at most per place_id, dishRows the rows of the table dishes per     *)
(* restaurant_id in the order they were inserted, providerCalls how often  *)
(* googleMaps.searchRestaurants has been called, response the last         *)
(* response sent.  Two history variables: storedAt, per search key the     *)
(* time of the last search that upserted at least 3 restaurants (-1 if     *)
(* none), and engineTop, per restaurant_id the last list getTopDishes      *)
(* returned for it.                                                        *)
(***************************************************************************)
VARIABLES now, restaurants, dishRows, providerCalls, response, storedAt, engineTop

serverVars == <<now, restaurants, dishRows, providerCalls, response, storedAt, engineTop>>

(***************************************************************************)
(* The normalizer on its own: rawName is the string handed to              *)
(* cleanDishName, cleanNames what it returned, first for rawName, then for *)
(* its own result.                                                         *)
(***************************************************************************)
VARIABLES rawName, cleanNames

normalizerVars == <<rawName, cleanNames>>

(***************************************************************************)
(* The scorer on its own: scoredText is the review text handed to          *)
(* calculateSentiment, scored whether it has returned, textScore what it   *)
(* returned.                                                               *)
(***************************************************************************)
VARIABLES scoredText, scored, textScore

scorerVars == <<scoredText, scored, textScore>>

(***************************************************************************)
(* analyzeReviews in double precision: dblReviews are the review texts,    *)
(* dblIdx the review the loop is at, dblDishes the Map allDishes with the  *)
(* sentiments as the doubles JavaScript computes.                          *)
(***************************************************************************)
VARIABLES dblReviews, dblIdx, dblDishes

doubleVars == <<dblReviews, dblIdx, dblDishes>>

\* everything that is no state of the single call
nonRankerVars == <<pairVars, syncVars, clientVars, serverVars, normalizerVars, scorerVars, doubleVars>>

\* everything that is no state of the two invocations
nonPairVars == <<rankerVars, syncVars, clientVars, serverVars, normalizerVars, scorerVars, doubleVars>>

\* everything that is no state of the offline queue
nonSyncVars == <<rankerVars, pairVars, clientVars, serverVars, normalizerVars, scorerVars, doubleVars>>

\* everything that is no state of the client's request path
nonClientVars == <<rankerVars, pairVars, syncVars, serverVars, normalizerVars, scorerVars, doubleVars>>

\* everything that is no state of the server's cache
nonServerVars == <<rankerVars, pairVars, syncVars, clientVars, normalizerVars, scorerVars, doubleVars>>

\* everything that is no state of the normalizer
nonNormalizerVars == <<rankerVars, pairVars, syncVars, clientVars, serverVars, scorerVars, doubleVars>>

\* everything that is no state of the scorer
nonScorerVars == <<rankerVars, pairVars, syncVars, clientVars, serverVars, normalizerVars, doubleVars>>

\* everything that is no state of the loop in double precision
nonDoubleVars == <<rankerVars, pairVars, syncVars, clientVars, serverVars, normalizerVars, scorerVars>>

vars == <<rankerVars, pairVars, syncVars, clientVars, serverVars, normalizerVars, scorerVars, doubleVars>>

\* the normalizer not called
NormalizerIdle == rawName = "" /\ cleanNames = <<>>

\* the scorer not called
ScorerIdle ==
  scoredText = "" /\ scored = FALSE /\ textScore = [sign |-> 0, m |-> <<>>, e |-> 0]

\* the loop in double precision not entered
DoubleIdle == dblReviews = <<>> /\ dblIdx = 1 /\ dblDishes = <<>>

\* no request answered yet
NoAnswer ==
  [op |-> "none", req |-> "", source |-> "", networkFailed |-> FALSE,
   queuedIt |-> FALSE]

\* the network up, nothing cached, nothing queued, nothing asked
ClientIdle ==
  /\ navigatorOnLine = TRUE
  /\ networkUp = TRUE
  /\ searches = {}
  /\ apiCache = {}
  /\ queued = <<>>
  /\ answer = NoAnswer

\* the searches sent to POST /search: zip, cuisine as typed, mealtime
SearchKeys ==
  { [zip |-> "10001", cuisine |-> "Italian", mealtime |-> "dinner"],
    [zip |-> "10001", cuisine |-> "Italian", mealtime |-> "lunch"],
    [zip |-> "10001", cuisine |-> "Thai", mealtime |-> "dinner"] }

\* the place_ids the maps provider knows
Places == { "p1", "p2", "p3", "p4" }

\* const restaurantId = `${zip}_${place.place_id}`
RestaurantId(zip, place) == zip \o "_" \o place

RestaurantIds == { RestaurantId(k.zip, p) : k \in SearchKeys, p \in Places }

\* no row for a place_id
NoRow ==
  [present |-> FALSE, id |-> "", zip_code |-> "", cuisine_type |-> "",
   mealtime |-> "", cached_at |-> 0]

\* no response sent yet
NoResponse ==
  [source |-> "none", key |-> [zip |-> "", cuisine |-> "", mealtime |-> ""],
   withinHour |-> FALSE, topDishes |-> <<>>]

\* an empty database at second 0
ServerIdle ==
  /\ now = 0
  /\ restaurants = [p \in Places |-> NoRow]
  /\ dishRows = [id \in RestaurantIds |-> <<>>]
  /\ providerCalls = 0
  /\ response = NoResponse
  /\ storedAt = [k \in SearchKeys |-> -1]
  /\ engineTop = [id \in RestaurantIds |-> <<>>]

Syncers == {"window", "worker"}

\* an empty queue, the network up, no sync under way
SyncIdle ==
  /\ online = TRUE
  /\ offlineQueue = {}
  /\ nextId = 1
  /\ pushed = [id \in 1..MaxSearches |-> 0]
  /\ failedLog = {}
  /\ syncPc = [s \in Syncers |-> "idle"]
  /\ syncPending = [s \in Syncers |-> <<>>]
  /\ syncIdx = [s \in Syncers |-> 1]

\* no single call under way
RankerIdle ==
  /\ reviews = <<>>
  /\ topN = 1
  /\ pc = "idle"
  /\ idx = 1
  /\ allDishes = <<>>
  /\ result = <<>>

\* no pair of invocations under way
PairIdle ==
  /\ lastIndex = FreshLastIndex
  /\ callReviews = <<>>
  /\ callPc = <<>>
  /\ callIdx = <<>>
  /\ callDishes = <<>>
  /\ callResult = <<>>
  /\ overlap = FALSE

Init ==
  /\ reviews \in UNION { [1..n -> ReviewSet] : n \in 0..MaxReviews }
  /\ topN \in 1..MaxTopN
  /\ pc = "call"
  /\ idx = 1
  /\ allDishes = <<>>
  /\ result = <<>>
  /\ PairIdle
  /\ SyncIdle
  /\ ClientIdle
  /\ ServerIdle
  /\ NormalizerIdle
  /\ ScorerIdle
  /\ DoubleIdle

\* Call without the guard on an empty review list
CallNoGuard ==
  /\ pc = "call"
  /\ allDishes' = <<>>
  /\ idx' = 1
  /\ pc' = "loop"
  /\ UNCHANGED <<reviews, topN, result, nonRankerVars>>

\* getTopDishes up to its call of analyzeReviews: no reviews, no dishes
Call ==
  /\ pc = "call"
  /\ IF Len(reviews) = 0
     THEN /\ result' = <<>>
          /\ pc' = "done"
          /\ UNCHANGED <<idx, allDishes>>
     ELSE /\ allDishes' = <<>>
          /\ idx' = 1
          /\ pc' = "loop"
          /\ UNCHANGED result
  /\ UNCHANGED <<reviews, topN, nonRankerVars>>

\* Review without if (!review.text) continue: undefined.toLowerCase()
\* throws, the empty string yields no mention
ReviewNoSkip ==
  /\ pc = "loop"
  /\ idx <= Len(reviews)
  /\ IF ~reviews[idx].hasText \/ ~reviews[idx].isString
     THEN /\ pc' = "threw"
          /\ UNCHANGED allDishes
     ELSE IF reviews[idx].text = ""
     THEN UNCHANGED <<allDishes, pc>>
     ELSE /\ allDishes' = MergeReview(allDishes, Mentions(reviews[idx].text), 1)
          /\ UNCHANGED pc
  /\ idx' = idx + 1
  /\ UNCHANGED <<reviews, topN, result, nonRankerVars>>

\* one iteration of for (const review of reviews): a record without text
\* is skipped; text.toLowerCase() of a text that is no string throws
Review ==
  /\ pc = "loop"
  /\ idx <= Len(reviews)
  /\ IF ~reviews[idx].hasText \/ reviews[idx].text = ""
     THEN UNCHANGED <<allDishes, pc>>
     ELSE IF ~reviews[idx].isString
     THEN /\ pc' = "threw"
          /\ UNCHANGED allDishes
     ELSE /\ allDishes' = MergeReview(allDishes, Mentions(reviews[idx].text), 1)
          /\ UNCHANGED pc
  /\ idx' = idx + 1
  /\ UNCHANGED <<reviews, topN, result, nonRankerVars>>

\* Return without the generic recommendation
ReturnNoFallback ==
  /\ pc = "loop"
  /\ idx > Len(reviews)
  /\ result' = RankDishes(allDishes)
  /\ pc' = "done"
  /\ UNCHANGED <<reviews, topN, idx, allDishes, nonRankerVars>>

\* the end of analyzeReviews and the return of getTopDishes
Return ==
  /\ pc = "loop"
  /\ idx > Len(reviews)
  /\ LET dishes == RankDishes(allDishes) IN
     result' = IF Len(dishes) = 0 THEN <<Placeholder>> ELSE dishes
  /\ pc' = "done"
  /\ UNCHANGED <<reviews, topN, idx, allDishes, nonRankerVars>>

Next == Call \/ Review \/ Return

Spec == Init /\ [][Next]_vars

(***************************************************************************)
(* The two invocations.  Every step is one of the steps of the single      *)
(* call, taken by invocation c on its own reviews; the steps of the two    *)
(* interleave in any order, which covers one call after the other.         *)
(***************************************************************************)
PairInit ==
  /\ RankerIdle
  /\ SyncIdle
  /\ ClientIdle
  /\ ServerIdle
  /\ NormalizerIdle
  /\ ScorerIdle
  /\ DoubleIdle
  /\ lastIndex = FreshLastIndex
  /\ callReviews \in
       [1..2 -> UNION { [1..n -> PairReviewSet] : n \in 0..MaxPairReviews }]
  /\ callPc = [c \in 1..2 |-> "call"]
  /\ callIdx = [c \in 1..2 |-> 1]
  /\ callDishes = [c \in 1..2 |-> <<>>]
  /\ callResult = [c \in 1..2 |-> <<>>]
  /\ overlap = FALSE

\* the step is taken while the other invocation is inside its loop
Overlapping(c) == overlap' = (overlap \/ callPc[3 - c] = "loop")

\* PairCall starting from the other invocation's map instead of a new Map()
PairCallSharedMap(c) ==
  /\ callPc[c] = "call"
  /\ IF Len(callReviews[c]) = 0
     THEN /\ callResult' = [callResult EXCEPT ![c] = <<>>]
          /\ callPc' = [callPc EXCEPT ![c] = "done"]
          /\ UNCHANGED <<callIdx, callDishes>>
     ELSE /\ callDishes' = [callDishes EXCEPT ![c] = callDishes[3 - c]]
          /\ callIdx' = [callIdx EXCEPT ![c] = 1]
          /\ callPc' = [callPc EXCEPT ![c] = "loop"]
          /\ UNCHANGED callResult
  /\ Overlapping(c)
  /\ UNCHANGED <<lastIndex, callReviews, nonPairVars>>

\* getTopDishes up to the loop of analyzeReviews, with its new Map()
PairCall(c) ==
  /\ callPc[c] = "call"
  /\ IF Len(callReviews[c]) = 0
     THEN /\ callResult' = [callResult EXCEPT ![c] = <<>>]
          /\ callPc' = [callPc EXCEPT ![c] = "done"]
          /\ UNCHANGED <<callIdx, callDishes>>
     ELSE /\ callDishes' = [callDishes EXCEPT ![c] = <<>>]
          /\ callIdx' = [callIdx EXCEPT ![c] = 1]
          /\ callPc' = [callPc EXCEPT ![c] = "loop"]
          /\ UNCHANGED callResult
  /\ Overlapping(c)
  /\ UNCHANGED <<lastIndex, callReviews, nonPairVars>>

\* PairReview as if the loop ran pattern.test(text) on the patterns
\* themselves after its matchAll, which moves their lastIndex
PairReviewTest(c) ==
  /\ callPc[c] = "loop"
  /\ callIdx[c] <= Len(callReviews[c])
  /\ LET review == callReviews[c][callIdx[c]] IN
     IF ~review.hasText \/ review.text = ""
     THEN UNCHANGED <<callDishes, lastIndex>>
     ELSE /\ callDishes' = [callDishes EXCEPT ![c] =
                              MergeReview(@, MentionsAt(review.text, lastIndex), 1)]
          /\ lastIndex' = LastIndexAfterTest(review.text, lastIndex)
  /\ callIdx' = [callIdx EXCEPT ![c] = @ + 1]
  /\ Overlapping(c)
  /\ UNCHANGED <<callReviews, callPc, callResult, nonPairVars>>

\* one iteration of the loop of analyzeReviews: matchAll reads the
\* patterns' lastIndex and writes only its clone's
PairReview(c) ==
  /\ callPc[c] = "loop"
  /\ callIdx[c] <= Len(callReviews[c])
  /\ LET review == callReviews[c][callIdx[c]] IN
     IF ~review.hasText \/ review.text = ""
     THEN UNCHANGED callDishes
     ELSE callDishes' = [callDishes EXCEPT ![c] =
                           MergeReview(@, MentionsAt(review.text, lastIndex), 1)]
  /\ callIdx' = [callIdx EXCEPT ![c] = @ + 1]
  /\ Overlapping(c)
  /\ UNCHANGED <<lastIndex, callReviews, callPc, callResult, nonPairVars>>

\* the end of analyzeReviews and the return of getTopDishes
PairReturn(c) ==
  /\ callPc[c] = "loop"
  /\ callIdx[c] > Len(callReviews[c])
  /\ LET dishes == RankDishes(callDishes[c]) IN
     callResult' = [callResult EXCEPT ![c] =
                      IF Len(dishes) = 0 THEN <<Placeholder>> ELSE dishes]
  /\ callPc' = [callPc EXCEPT ![c] = "done"]
  /\ Overlapping(c)
  /\ UNCHANGED <<lastIndex, callReviews, callIdx, callDishes, nonPairVars>>

PairNext == \E c \in 1..2 : PairCall(c) \/ PairReview(c) \/ PairReturn(c)

PairSpec == PairInit /\ [][PairNext]_vars

(***************************************************************************)
(* The offline queue.  Every await of the two sync functions ends a step.  *)
(***************************************************************************)
SyncInit ==
  /\ RankerIdle /\ PairIdle /\ SyncIdle
  /\ ClientIdle /\ ServerIdle /\ NormalizerIdle /\ ScorerIdle
  /\ DoubleIdle

RECURSIVE SortedSeq(_)
\* store.getAll(): the records in the order of their keys
SortedSeq(ids) ==
  IF ids = {} THEN <<>>
  ELSE LET m == CHOOSE i \in ids : \A j \in ids : i <= j
       IN  <<m>> \o SortedSeq(ids \ {m})

\* searchRestaurants while offline: queueOfflineSearch(params)
QueueOfflineSearch ==
  /\ ~online
  /\ nextId <= MaxSearches
  /\ offlineQueue' = offlineQueue \cup {nextId}
  /\ nextId' = nextId + 1
  /\ UNCHANGED <<online, pushed, failedLog, syncPc, syncPending, syncIdx,
                 nonSyncVars>>

\* the network goes down
GoOffline ==
  /\ online
  /\ online' = FALSE
  /\ UNCHANGED <<offlineQueue, nextId, pushed, failedLog, syncPc, syncPending, syncIdx,
                 nonSyncVars>>

\* the network comes back: the page's 'online' listener calls
\* syncOfflineData, which passes its navigator.onLine test
OnlineEvent ==
  /\ ~online
  /\ online' = TRUE
  /\ syncPc' = IF syncPc["window"] = "idle"
               THEN [syncPc EXCEPT !["window"] = "read"]
               ELSE syncPc
  /\ UNCHANGED <<offlineQueue, nextId, pushed, failedLog, syncPending, syncIdx,
                 nonSyncVars>>

\* the browser fires 'sync' with the tag sync-searches at the service
\* worker, which calls syncOfflineSearches
SyncEvent ==
  /\ online
  /\ syncPc["worker"] = "idle"
  /\ syncPc' = [syncPc EXCEPT !["worker"] = "read"]
  /\ UNCHANGED <<online, offlineQueue, nextId, pushed, failedLog, syncPending, syncIdx,
                 nonSyncVars>>

\* getPendingOfflineSearches() / store.getAll(), and the return when
\* nothing is pending
ReadPending(s) ==
  /\ syncPc[s] = "read"
  /\ syncPending' = [syncPending EXCEPT ![s] = SortedSeq(offlineQueue)]
  /\ syncIdx' = [syncIdx EXCEPT ![s] = 1]
  /\ syncPc' = [syncPc EXCEPT ![s] = IF offlineQueue = {} THEN "idle" ELSE "push"]
  /\ UNCHANGED <<online, offlineQueue, nextId, pushed, failedLog, nonSyncVars>>

\* one iteration of for (const search of pending): the fetch reaches the
\* server, or rejects and is caught and logged
PushSearch(s) ==
  /\ syncPc[s] = "push"
  /\ syncIdx[s] <= Len(syncPending[s])
  /\ LET search == syncPending[s][syncIdx[s]] IN
     IF online
     THEN /\ pushed' = [pushed EXCEPT ![search] = @ + 1]
          /\ UNCHANGED failedLog
     ELSE /\ failedLog' = failedLog \cup {search}
          /\ UNCHANGED pushed
  /\ syncIdx' = [syncIdx EXCEPT ![s] = @ + 1]
  /\ UNCHANGED <<online, offlineQueue, nextId, syncPc, syncPending, nonSyncVars>>

\* after the loop: clearOfflineQueue() / objectStore('offlineQueue').clear()
ClearQueue(s) ==
  /\ syncPc[s] = "push"
  /\ syncIdx[s] > Len(syncPending[s])
  /\ offlineQueue' = {}
  /\ syncPc' = [syncPc EXCEPT ![s] = "idle"]
  /\ UNCHANGED <<online, nextId, pushed, failedLog, syncPending, syncIdx, nonSyncVars>>

SyncNext ==
  \/ QueueOfflineSearch
  \/ GoOffline
  \/ OnlineEvent
  \/ SyncEvent
  \/ \E s \in Syncers : ReadPending(s) \/ PushSearch(s) \/ ClearQueue(s)

SyncSpec == SyncInit /\ [][SyncNext]_vars

(***************************************************************************)
(* ClientSpec: the requests of the page and the worker's answer to them.   *)
(***************************************************************************)
ClientInit ==
  /\ RankerIdle /\ PairIdle /\ SyncIdle
  /\ ClientIdle /\ ServerIdle /\ NormalizerIdle /\ ScorerIdle
  /\ DoubleIdle

\* the most searches the store 'offlineQueue' holds in the model
MaxQueued == 2

\* generateSearchKey: `${locationKey}_${cuisine}_${mealtime}`
generateSearchKey(params) ==
  params.zipCode \o "_" \o params.cuisine \o "_" \o params.mealtime

\* the searches the page asks for
SearchParams ==
  { [zipCode |-> "10001", cuisine |-> "italian", mealtime |-> "dinner"],
    [zipCode |-> "10001", cuisine |-> "thai", mealtime |-> "lunch"] }

\* the GET requests under /api/ the page sends through the worker
ApiGets == { "/api/v1/restaurants/1", "/api/v1/history" }

\* getCachedSearch: the entry exists and is younger than an hour
getCachedSearch(params) == generateSearchKey(params) \in searches

\* searchRestaurants(params), lines 21-87.  The POST of the search is no GET
\* request: the worker's fetch handler leaves it to the browser.
searchRestaurants(params) ==
  LET key == generateSearchKey(params) IN
  /\ IF getCachedSearch(params)
     THEN /\ answer' = [op |-> "search", req |-> key, source |-> "cache",
                        networkFailed |-> FALSE, queuedIt |-> FALSE]
          /\ UNCHANGED <<searches, queued>>
     ELSE IF ~navigatorOnLine
     THEN /\ Len(queued) < MaxQueued
          /\ queued' = Append(queued, key)
          /\ answer' = [op |-> "search", req |-> key, source |-> "offline",
                        networkFailed |-> TRUE, queuedIt |-> TRUE]
          /\ UNCHANGED searches
     ELSE IF networkUp
     THEN \E ok \in BOOLEAN :
            /\ searches' = IF ok THEN searches \cup {key} ELSE searches
            /\ answer' = [op |-> "search", req |-> key,
                          source |-> IF ok THEN "api"
                                     ELSE IF getCachedSearch(params)
                                     THEN "cache-fallback" ELSE "error",
                          networkFailed |-> FALSE, queuedIt |-> FALSE]
            /\ UNCHANGED queued
     ELSE /\ answer' = [op |-> "search", req |-> key,
                        source |-> IF getCachedSearch(params)
                                   THEN "cache-fallback" ELSE "error",
                        networkFailed |-> TRUE, queuedIt |-> FALSE]
          /\ UNCHANGED <<searches, queued>>
  /\ UNCHANGED <<navigatorOnLine, networkUp, apiCache, nonClientVars>>

\* networkFirstStrategy(request) of the worker, sw.js lines 103-131
networkFirstStrategy(request) ==
  /\ IF networkUp
     THEN \E ok \in BOOLEAN :
            /\ apiCache' = IF ok THEN apiCache \cup {request} ELSE apiCache
            /\ answer' = [op |-> "get", req |-> request,
                          source |-> IF ok THEN "network" ELSE "network-error",
                          networkFailed |-> FALSE, queuedIt |-> FALSE]
     ELSE /\ answer' = [op |-> "get", req |-> request,
                        source |-> IF request \in apiCache
                                   THEN "worker-cache" ELSE "503",
                        networkFailed |-> TRUE, queuedIt |-> FALSE]
          /\ UNCHANGED apiCache
  /\ UNCHANGED <<navigatorOnLine, networkUp, searches, queued, nonClientVars>>

\* the route to the server breaks; the browser may or may not notice
NetworkDown ==
  /\ networkUp
  /\ networkUp' = FALSE
  /\ navigatorOnLine' \in BOOLEAN
  /\ UNCHANGED <<searches, apiCache, queued, answer, nonClientVars>>

\* the browser notices that it is offline
NavigatorOffline ==
  /\ navigatorOnLine /\ ~networkUp
  /\ navigatorOnLine' = FALSE
  /\ UNCHANGED <<networkUp, searches, apiCache, queued, answer, nonClientVars>>

\* the route to the server is back
NetworkBack ==
  /\ ~networkUp
  /\ networkUp' = TRUE
  /\ navigatorOnLine' = TRUE
  /\ UNCHANGED <<searches, apiCache, queued, answer, nonClientVars>>

\* an entry of 'searches' becomes an hour old
SearchExpires(key) ==
  /\ key \in searches
  /\ searches' = searches \ {key}
  /\ UNCHANGED <<navigatorOnLine, networkUp, apiCache, queued, answer, nonClientVars>>

ClientNext ==
  \/ \E params \in SearchParams : searchRestaurants(params)
  \/ \E request \in ApiGets : networkFirstStrategy(request)
  \/ NetworkDown
  \/ NavigatorOffline
  \/ NetworkBack
  \/ \E key \in { generateSearchKey(params) : params \in SearchParams } :
       SearchExpires(key)

ClientSpec == ClientInit /\ [][ClientNext]_vars

(***************************************************************************)
(* ServerSpec: POST /search over the SQLite cache.                         *)
(***************************************************************************)
ServerInit ==
  /\ RankerIdle /\ PairIdle /\ SyncIdle
  /\ ClientIdle /\ ServerIdle /\ NormalizerIdle /\ ScorerIdle
  /\ DoubleIdle

\* the seconds a restaurant row counts as fresh
CacheSeconds == 3600

\* the seconds the clock advances in one step
TickSeconds == 1800

\* the most steps the clock takes
MaxTicks == 3

\* the most calls of the maps provider
MaxProviderCalls == 3

\* what googleMaps.searchRestaurants may answer: at most 3 places, the same
\* ones for the lunch and the dinner search of a cuisine
ProviderAnswers(key) ==
  IF key.cuisine = "Italian" THEN { <<"p1", "p2", "p3">> } ELSE { <<"p4">> }

\* a review of the provider with the text t
ProviderReview(t) == [hasText |-> TRUE, isString |-> TRUE, text |-> t]

\* what getPlaceDetails may return as details.reviews || [] for a place
PlaceReviews(place) ==
  CASE place = "p1" ->
         { <<ProviderReview("the pizza was amazing")>>,
           <<ProviderReview("Enjoyed the pizza. Love the pizza. Enjoyed pizza. Love pizza. Enjoyed the pizza. Pizza!"),
             ProviderReview(LongReview)>> }
    [] place = "p2" -> { <<ProviderReview("ordered 2 tacos")>> }
    [] place = "p3" -> { <<>> }
    [] OTHER -> { <<ProviderReview("great service, friendly staff")>> }

\* the review lists of all places
AllPlaceReviews == UNION { PlaceReviews(p) : p \in Places }

\* what the provider may return for all places at one moment
PlaceDetails ==
  { details \in [Places -> AllPlaceReviews] :
      \A p \in Places : details[p] \in PlaceReviews(p) }

\* dishAnalyzer.getTopDishes of every review list of the provider
TopDishesTable ==
  { [reviews |-> revs, topDishes |-> getTopDishes(revs)] :
      revs \in AllPlaceReviews }

\* dishAnalyzer.getTopDishes(details.reviews || [])
TopDishesOf(revs) ==
  (CHOOSE e \in TopDishesTable : e.reviews = revs).topDishes

\* RestaurantRepo.isCacheFresh: COUNT(*) of the rows of the key cached less
\* than 3600 seconds before t
isCacheFresh(rs, t, zipCode, cuisineType, mealtime) ==
  Cardinality({ p \in Places :
                  /\ rs[p].present
                  /\ rs[p].zip_code = zipCode
                  /\ rs[p].cuisine_type = cuisineType
                  /\ rs[p].mealtime = mealtime
                  /\ rs[p].cached_at > t - CacheSeconds })

\* RestaurantRepo.getByZipAndCuisine: the rows of the key (there are at most 3)
getByZipAndCuisine(rs, zipCode, cuisineType, mealtime) ==
  { p \in Places :
      /\ rs[p].present
      /\ rs[p].zip_code = zipCode
      /\ rs[p].cuisine_type = cuisineType
      /\ rs[p].mealtime = mealtime }

\* RestaurantRepo.upsert at second t: INSERT, ON CONFLICT(place_id) DO UPDATE
\* SET name, ..., cached_at; id, zip_code, cuisine_type and mealtime of an
\* existing row stay
RestaurantRepoUpsert(rs, t, data) ==
  IF rs[data.place_id].present
  THEN [rs EXCEPT ![data.place_id].cached_at = t]
  ELSE [rs EXCEPT ![data.place_id] =
          [present |-> TRUE, id |-> data.id, zip_code |-> data.zip_code,
           cuisine_type |-> data.cuisine_type, mealtime |-> data.mealtime,
           cached_at |-> t]]

\* DishRepo.upsert on the rows of one restaurant_id: INSERT, ON
\* CONFLICT(restaurant_id, dish_name) DO UPDATE SET mention_count =
\* dishes.mention_count + excluded.mention_count, average_sentiment, sample_review
DishRepoUpsert(rows, data) ==
  LET hit == { k \in 1..Len(rows) : rows[k].dish_name = data.dish_name } IN
  IF hit # {}
  THEN LET k == CHOOSE k \in hit : TRUE IN
       [rows EXCEPT ![k] =
          [@ EXCEPT !.mention_count = @ + data.mention_count,
                    !.average_sentiment = data.average_sentiment,
                    !.sample_review = data.sample_review]]
  ELSE Append(rows, data)

RECURSIVE CacheDishes(_, _, _)
\* for (const dish of topDishes) DishRepo.upsert({...}), from dish j on
CacheDishes(rows, topDishes, j) ==
  IF j > Len(topDishes) THEN rows
  ELSE CacheDishes(
         DishRepoUpsert(rows,
           [dish_name |-> topDishes[j].dishName,
            mention_count |-> topDishes[j].mentionCount,
            average_sentiment |-> topDishes[j].averageSentiment,
            sample_review |-> topDishes[j].sampleReview]),
         topDishes, j + 1)

\* ORDER BY mention_count DESC, average_sentiment DESC: a comes before b
RowBefore(a, b) ==
  \/ a.mention_count > b.mention_count
  \/ /\ a.mention_count = b.mention_count
     /\ RatLess(b.average_sentiment, a.average_sentiment)

RECURSIVE SqlOrders(_)
\* the orders in which SQLite may return the rows R: rows equal in both
\* columns come in any order
SqlOrders(R) ==
  IF R = {} THEN { <<>> }
  ELSE UNION { { <<r>> \o rest : rest \in SqlOrders(R \ {r}) } :
               r \in { r \in R : \A o \in R : ~RowBefore(o, r) } }

\* DishRepo.getByRestaurant: the lists the query may return, LIMIT 3
getByRestaurant(table, restaurantId) ==
  { SubSeq(order, 1, IF Len(order) > 3 THEN 3 ELSE Len(order)) :
      order \in SqlOrders({ table[restaurantId][k] :
                              k \in 1..Len(table[restaurantId]) }) }

RECURSIVE CachedDishes(_, _)
\* cachedRestaurants.map(restaurant => DishRepo.getByRestaurant(restaurant.id)):
\* the lists the queries may return, per restaurant id
CachedDishes(table, ids) ==
  IF ids = {} THEN { [id \in {} |-> <<>>] }
  ELSE LET first == CHOOSE id \in ids : TRUE IN
       { [id \in ids |-> IF id = first THEN list ELSE others[id]] :
           list \in getByRestaurant(table, first),
           others \in CachedDishes(table, ids \ {first}) }

\* one round of the loop over googleResults, topDishes being what getTopDishes
\* returned for the place: RestaurantRepo.upsert, then DishRepo.upsert of
\* every dish.  db holds the two tables and, for the record, the lists
\* getTopDishes returned
StorePlace(db, t, key, place, topDishes) ==
  [restaurants |->
     RestaurantRepoUpsert(db.restaurants, t,
       [id |-> RestaurantId(key.zip, place), place_id |-> place,
        zip_code |-> key.zip, cuisine_type |-> toLowerCase(key.cuisine),
        mealtime |-> key.mealtime]),
   dishRows |->
     [db.dishRows EXCEPT ![RestaurantId(key.zip, place)] =
        CacheDishes(@, topDishes, 1)],
   engineTop |->
     [db.engineTop EXCEPT ![RestaurantId(key.zip, place)] = topDishes]]

RECURSIVE StorePlaces(_, _, _, _, _, _)
\* for (const place of googleResults), from place i on
StorePlaces(db, t, key, places, details, i) ==
  IF i > Len(places) THEN db
  ELSE StorePlaces(
         StorePlace(db, t, key, places[i], TopDishesOf(details[places[i]])),
         t, key, places, details, i + 1)

\* the searched key was last stored with at least 3 restaurants less than an
\* hour ago
WithinHour(key) == storedAt[key] >= 0 /\ now - storedAt[key] < CacheSeconds

\* POST /search answered from the cache (lines 46-78)
SearchFromCache(key) ==
  LET cached == getByZipAndCuisine(restaurants, key.zip,
                                   toLowerCase(key.cuisine), key.mealtime)
      ids == { restaurants[p].id : p \in cached }
  IN
  /\ isCacheFresh(restaurants, now, key.zip, toLowerCase(key.cuisine),
                  key.mealtime) >= 3
  /\ \E lists \in CachedDishes(dishRows, ids) :
       response' = [source |-> "cache", key |-> key,
                    withinHour |-> WithinHour(key), topDishes |-> lists]
  /\ UNCHANGED <<now, restaurants, dishRows, providerCalls, storedAt, engineTop,
                 nonServerVars>>

\* POST /search answered by the provider (lines 80-197)
SearchFromApi(key) ==
  /\ isCacheFresh(restaurants, now, key.zip, toLowerCase(key.cuisine),
                  key.mealtime) < 3
  /\ providerCalls < MaxProviderCalls
  /\ \E places \in ProviderAnswers(key) :
     \E details \in PlaceDetails :
     \E db \in { StorePlaces([restaurants |-> restaurants,
                              dishRows |-> dishRows,
                              engineTop |-> engineTop],
                             now, key, places, details, 1) } :
       /\ restaurants' = db.restaurants
       /\ dishRows' = db.dishRows
       /\ engineTop' = db.engineTop
       /\ response' =
            [source |-> "api", key |-> key, withinHour |-> WithinHour(key),
             topDishes |->
               [id \in { RestaurantId(key.zip, places[i]) :
                           i \in 1..Len(places) } |-> db.engineTop[id]]]
       /\ storedAt' = IF Len(places) >= 3
                      THEN [storedAt EXCEPT ![key] = now] ELSE storedAt
  /\ providerCalls' = providerCalls + 1
  /\ UNCHANGED <<now, nonServerVars>>

\* time passes
Tick ==
  /\ now < MaxTicks * TickSeconds
  /\ now' = now + TickSeconds
  /\ UNCHANGED <<restaurants, dishRows, providerCalls, response, storedAt,
                 engineTop, nonServerVars>>

ServerNext ==
  \/ \E key \in SearchKeys : SearchFromCache(key)
  \/ \E key \in SearchKeys : SearchFromApi(key)
  \/ Tick

ServerSpec == ServerInit /\ [][ServerNext]_vars

(***************************************************************************)
(* NormalizerSpec: cleanDishName applied to a string, then to its result.  *)
(***************************************************************************)
\* the longest string handed to the normalizer
MaxNameLen == 4

\* the characters of those strings: letters of both cases, a digit, the two
\* kinds of whitespace, punctuation
NameChars == { "a", "B", "2", " ", "\t", "-" }

RECURSIVE NamesUpTo(_)
\* the strings over NameChars of length n at most
NamesUpTo(n) ==
  IF n = 0 THEN { "" }
  ELSE LET shorter == NamesUpTo(n - 1)
       IN  shorter \cup { s \o c : s \in shorter, c \in NameChars }

NormalizerInit ==
  /\ RankerIdle /\ PairIdle /\ SyncIdle /\ ClientIdle /\ ServerIdle /\ ScorerIdle
  /\ DoubleIdle
  /\ rawName \in NamesUpTo(MaxNameLen)
  /\ cleanNames = <<>>

\* cleanDishName(rawName)
Normalize ==
  /\ Len(cleanNames) = 0
  /\ cleanNames' = <<cleanDishName(rawName)>>
  /\ UNCHANGED <<rawName, nonNormalizerVars>>

\* cleanDishName of what cleanDishName returned
NormalizeAgain ==
  /\ Len(cleanNames) = 1
  /\ cleanNames' = Append(cleanNames, cleanDishName(cleanNames[1]))
  /\ UNCHANGED <<rawName, nonNormalizerVars>>

NormalizerNext == Normalize \/ NormalizeAgain

NormalizerSpec == NormalizerInit /\ [][NormalizerNext]_vars

(***************************************************************************)
(* JavaScript numbers: IEEE 754 double precision, round to nearest, ties   *)
(* to even.  A significand is a natural number written in limbs of 13 bits, *)
(* least significant first; a double is a sign, a significand of exactly   *)
(* 53 bits and the exponent of its last bit (value = sign * m * 2^e), or   *)
(* zero.  The values met here are far from overflow and underflow.         *)
(***************************************************************************)
LimbBits == 13

\* limbs per natural number: 117 bits
LimbCount == 9

Pow2(k) == 2 ^ k

LimbBase == Pow2(LimbBits)

BigZero == [i \in 1..LimbCount |-> 0]

\* a small natural number as limbs
BigOfNat(n) ==
  [i \in 1..LimbCount |->
     IF i = 1 THEN n % LimbBase
     ELSE IF i = 2 THEN (n \div LimbBase) % LimbBase
     ELSE IF i = 3 THEN n \div (LimbBase * LimbBase) ELSE 0]

RECURSIVE CarryFrom(_, _, _)
\* the limbs i.. of raw with the carry worked in
CarryFrom(raw, i, carry) ==
  IF i > LimbCount THEN <<>>
  ELSE <<(raw[i] + carry) % LimbBase>>
         \o CarryFrom(raw, i + 1, (raw[i] + carry) \div LimbBase)

BigAdd(a, b) == CarryFrom([i \in 1..LimbCount |-> a[i] + b[i]], 1, 0)

RECURSIVE BorrowFrom(_, _, _, _)
\* a - b for a >= b, from limb i on
BorrowFrom(a, b, i, borrow) ==
  IF i > LimbCount THEN <<>>
  ELSE LET d == a[i] - b[i] - borrow IN
       <<IF d < 0 THEN d + LimbBase ELSE d>>
         \o BorrowFrom(a, b, i + 1, IF d < 0 THEN 1 ELSE 0)

BigSub(a, b) == BorrowFrom(a, b, 1, 0)

\* a * 2^k
BigShl(a, k) ==
  LET q == k \div LimbBits
      r == k % LimbBits
  IN  CarryFrom([i \in 1..LimbCount |-> IF i > q THEN a[i - q] * Pow2(r) ELSE 0], 1, 0)

\* the limb i of a, 0 beyond the last
LimbAt(a, i) == IF i <= LimbCount THEN a[i] ELSE 0

\* floor(a / 2^k)
BigShr(a, k) ==
  LET q == k \div LimbBits
      r == k % LimbBits
  IN  [i \in 1..LimbCount |->
         (LimbAt(a, i + q) \div Pow2(r))
           + (LimbAt(a, i + q + 1) % Pow2(r)) * Pow2(LimbBits - r)]

\* bit i of a, bit 0 being the last
BitAt(a, i) == (a[i \div LimbBits + 1] \div Pow2(i % LimbBits)) % 2

\* the number of bits of a
BitLength(a) ==
  LET ones == { i \in 0..(LimbCount * LimbBits - 1) : BitAt(a, i) = 1 } IN
  IF ones = {} THEN 0 ELSE 1 + CHOOSE i \in ones : \A j \in ones : j <= i

BigLess(a, b) ==
  \E i \in 1..LimbCount :
    a[i] < b[i] /\ \A j \in (i + 1)..LimbCount : a[j] = b[j]

RECURSIVE DivFrom(_, _, _, _)
\* long division of the limbs i..1 of a by the small number n, rem being the
\* remainder of the limbs above: <<the quotient's limbs 1..i, the remainder>>
DivFrom(a, n, i, rem) ==
  IF i = 0 THEN <<<<>>, rem>>
  ELSE LET cur == rem * LimbBase + a[i]
           rest == DivFrom(a, n, i - 1, cur % n)
       IN  <<Append(rest[1], cur \div n), rest[2]>>

\* <<floor(a / n), a mod n>> for 0 < n <= 100
BigDivSmall(a, n) == DivFrom(a, n, LimbCount, 0)

DoubleZero == [sign |-> 1, m |-> BigZero, e |-> 0]

IsZero(x) == x.m = BigZero

\* sign * (big * 2^e, and a little more if sticky) rounded to a double
RoundToDouble(sign, big, e, sticky) ==
  LET n == BitLength(big) IN
  IF n = 0 THEN DoubleZero
  ELSE IF n <= 53 THEN [sign |-> sign, m |-> BigShl(big, 53 - n), e |-> e - (53 - n)]
  ELSE LET k == n - 53
           q == BigShr(big, k)
           guard == BitAt(big, k - 1) = 1
           rest == sticky \/ \E i \in 0..(k - 2) : BitAt(big, i) = 1
           up == guard /\ (rest \/ BitAt(q, 0) = 1)
           r == IF up THEN BigAdd(q, BigOfNat(1)) ELSE q
       IN  IF BitLength(r) = 54
           THEN [sign |-> sign, m |-> BigShr(r, 1), e |-> e + k + 1]
           ELSE [sign |-> sign, m |-> r, e |-> e + k]

\* the double nearest to n
DoubleOfNat(n) == RoundToDouble(1, BigOfNat(n), 0, FALSE)

\* the double a decimal literal of h hundredths denotes (0.85, -0.4)
DoubleOfHundredths(h) ==
  IF h = 0 THEN DoubleZero
  ELSE LET qr == BigDivSmall(BigShl(BigOfNat(Abs(h)), 64), 100)
       IN  RoundToDouble(IF h < 0 THEN -1 ELSE 1, qr[1], -64, qr[2] # 0)

\* |x| < |y|
MagnitudeLess(x, y) ==
  IF IsZero(y) THEN FALSE
  ELSE IF IsZero(x) THEN TRUE
  ELSE x.e < y.e \/ (x.e = y.e /\ BigLess(x.m, y.m))

\* x < y
DoubleLess(x, y) ==
  IF IsZero(x) THEN ~IsZero(y) /\ y.sign = 1
  ELSE IF IsZero(y) THEN x.sign = -1
  ELSE IF x.sign # y.sign THEN x.sign = -1
  ELSE IF x.sign = 1 THEN MagnitudeLess(x, y) ELSE MagnitudeLess(y, x)

\* x + y
DoubleAdd(x, y) ==
  IF IsZero(x) THEN y
  ELSE IF IsZero(y) THEN x
  ELSE LET lo == IF x.e < y.e THEN x.e ELSE y.e
           a == BigShl(x.m, x.e - lo)
           b == BigShl(y.m, y.e - lo)
       IN  IF x.sign = y.sign THEN RoundToDouble(x.sign, BigAdd(a, b), lo, FALSE)
           ELSE IF BigLess(a, b) THEN RoundToDouble(y.sign, BigSub(b, a), lo, FALSE)
           ELSE RoundToDouble(x.sign, BigSub(a, b), lo, FALSE)

\* x / n for a natural number n, 0 < n <= 100
DoubleDivNat(x, n) ==
  IF IsZero(x) THEN DoubleZero
  ELSE LET qr == BigDivSmall(BigShl(x.m, 60), n)
       IN  RoundToDouble(x.sign, qr[1], x.e - 60, qr[2] # 0)

\* Math.max(0, Math.min(1, x))
DoubleClamp(x) ==
  IF DoubleLess(x, DoubleZero) THEN DoubleZero
  ELSE IF DoubleLess(DoubleOfNat(1), x) THEN DoubleOfNat(1) ELSE x

(***************************************************************************)
(* calculateSentiment and analyzeReviews as JavaScript computes them       *)
(***************************************************************************)
RECURSIVE ScoreWordsDouble(_, _, _, _)
\* the loop over a lexicon's entries from entry k on, in the order of
\* Object.entries, from acc = <<totalScore, scoreCount>>
ScoreWordsDouble(lowerText, lexicon, k, acc) ==
  IF k > Len(lexicon) THEN acc
  ELSE IF includes(lowerText, lexicon[k][1])
  THEN ScoreWordsDouble(lowerText, lexicon, k + 1,
         <<DoubleAdd(acc[1], DoubleOfHundredths(lexicon[k][2])), acc[2] + 1>>)
  ELSE ScoreWordsDouble(lowerText, lexicon, k + 1, acc)

\* calculateSentimentDouble with the baseline counted as a score
\* (scoreCount from 1)
calculateSentimentDoubleSeedCounted(text, dishName) ==
  LET lowerText == toLowerCase(text)
      tot == ScoreWordsDouble(lowerText, SENTIMENT_NEGATIVE, 1,
               ScoreWordsDouble(lowerText, SENTIMENT_POSITIVE, 1,
                                <<DoubleOfHundredths(50), 1>>))
  IN  IF tot[2] = 1 THEN DoubleOfHundredths(50)
      ELSE DoubleClamp(DoubleDivNat(tot[1], tot[2]))

\* lines 241-264, in double precision
calculateSentimentDouble(text, dishName) ==
  LET lowerText == toLowerCase(text)
      tot == ScoreWordsDouble(lowerText, SENTIMENT_NEGATIVE, 1,
               ScoreWordsDouble(lowerText, SENTIMENT_POSITIVE, 1,
                                <<DoubleOfHundredths(50), 0>>))
  IN  IF tot[2] = 0 THEN DoubleOfHundredths(50)
      ELSE DoubleClamp(DoubleDivNat(tot[1], tot[2]))

RECURSIVE RunningAverage(_, _, _)
\* existing.sentiment = (existing.sentiment + sentiment) / 2, for each of
\* the count - 1 further matches of a name within one review
RunningAverage(existing, sentiment, count) ==
  IF count <= 1 THEN existing
  ELSE RunningAverage(DoubleDivNat(DoubleAdd(existing, sentiment), 2),
                      sentiment, count - 1)

\* extractDishMentions with the sentiments in double precision: the names
\* and counts do not depend on the scores, and every call of
\* calculateSentiment within one review returns the same number
extractDishMentionsDouble(text) ==
  LET found == extractDishMentions(text)
      sentiment == calculateSentimentDouble(text, "")
  IN  [j \in 1..Len(found) |->
         [name |-> found[j].name,
          count |-> found[j].count,
          sentiment |-> RunningAverage(sentiment, sentiment, found[j].count),
          sampleReview |-> found[j].sampleReview]]

\* the review texts of the loop in double precision
DoubleCorpus == {
  "",
  "the pizza was great and nice",
  "the pizza was good and fresh",
  "the pizza was great",
  "the pizza was cold",
  "ordered 2 tacos" }

MaxDoubleReviews == 3

\* extractDishMentionsDouble of every text of the corpus, computed once
DoubleMentionTable ==
  { <<t, extractDishMentionsDouble(t)>> : t \in DoubleCorpus \ {""} }

DoubleMentions(text) == (CHOOSE p \in DoubleMentionTable : p[1] = text)[2]

\* MergeMentionDouble with the test against bestSentiment the other way
\* round
MergeMentionDoubleKeepsLowest(all, data) ==
  LET k == IndexOf(all, data.name) IN
  IF k # 0
  THEN [all EXCEPT ![k] =
          [@ EXCEPT !.mentionCount = @ + data.count,
                    !.totalSentiment = DoubleAdd(@, data.sentiment),
                    !.reviewCount = @ + 1,
                    !.bestSentiment =
                       IF DoubleLess(data.sentiment, all[k].bestSentiment)
                       THEN data.sentiment ELSE @,
                    !.sampleReview =
                       IF DoubleLess(data.sentiment, all[k].bestSentiment)
                       THEN data.sampleReview ELSE @]]
  ELSE Append(all, [name |-> data.name,
                    mentionCount |-> data.count,
                    totalSentiment |-> data.sentiment,
                    reviewCount |-> 1,
                    bestSentiment |-> data.sentiment,
                    sampleReview |-> data.sampleReview])

\* MergeMentionDouble with bestSentiment taken from every mention
MergeMentionDoubleKeepsLast(all, data) ==
  LET k == IndexOf(all, data.name) IN
  IF k # 0
  THEN [all EXCEPT ![k] =
          [@ EXCEPT !.mentionCount = @ + data.count,
                    !.totalSentiment = DoubleAdd(@, data.sentiment),
                    !.reviewCount = @ + 1,
                    !.bestSentiment = data.sentiment,
                    !.sampleReview = data.sampleReview]]
  ELSE Append(all, [name |-> data.name,
                    mentionCount |-> data.count,
                    totalSentiment |-> data.sentiment,
                    reviewCount |-> 1,
                    bestSentiment |-> data.sentiment,
                    sampleReview |-> data.sampleReview])

\* the body of the loop over one review's mentions (lines 278-296)
MergeMentionDouble(all, data) ==
  LET k == IndexOf(all, data.name) IN
  IF k # 0
  THEN [all EXCEPT ![k] =
          [@ EXCEPT !.mentionCount = @ + data.count,
                    !.totalSentiment = DoubleAdd(@, data.sentiment),
                    !.reviewCount = @ + 1,
                    !.bestSentiment =
                       IF DoubleLess(all[k].bestSentiment, data.sentiment)
                       THEN data.sentiment ELSE @,
                    !.sampleReview =
                       IF DoubleLess(all[k].bestSentiment, data.sentiment)
                       THEN data.sampleReview ELSE @]]
  ELSE Append(all, [name |-> data.name,
                    mentionCount |-> data.count,
                    totalSentiment |-> data.sentiment,
                    reviewCount |-> 1,
                    bestSentiment |-> data.sentiment,
                    sampleReview |-> data.sampleReview])

RECURSIVE MergeReviewDouble(_, _, _)
\* for (const [dishName, data] of reviewDishes), from entry j on
MergeReviewDouble(all, reviewDishes, j) ==
  IF j > Len(reviewDishes) THEN all
  ELSE MergeReviewDouble(MergeMentionDouble(all, reviewDishes[j]), reviewDishes, j + 1)

RECURSIVE analyzeLoopDouble(_, _, _)
\* for (const review of reviews) from review k on
analyzeLoopDouble(all, texts, k) ==
  IF k > Len(texts) THEN all
  ELSE IF texts[k] = "" THEN analyzeLoopDouble(all, texts, k + 1)
  ELSE analyzeLoopDouble(MergeReviewDouble(all, DoubleMentions(texts[k]), 1),
                         texts, k + 1)

\* averageSentiment: dish.totalSentiment / dish.reviewCount
averageSentimentDouble(dish) == DoubleDivNat(dish.totalSentiment, dish.reviewCount)

DoubleInit ==
  /\ RankerIdle /\ PairIdle /\ SyncIdle /\ ClientIdle /\ ServerIdle
  /\ NormalizerIdle /\ ScorerIdle
  /\ dblReviews \in UNION { [1..n -> DoubleCorpus] : n \in 0..MaxDoubleReviews }
  /\ dblIdx = 1
  /\ dblDishes = <<>>

\* one iteration of for (const review of reviews): a review without text
\* is skipped
DoubleReview ==
  /\ dblIdx <= Len(dblReviews)
  /\ dblDishes' =
       IF dblReviews[dblIdx] = "" THEN dblDishes
       ELSE MergeReviewDouble(dblDishes, DoubleMentions(dblReviews[dblIdx]), 1)
  /\ dblIdx' = dblIdx + 1
  /\ UNCHANGED <<dblReviews, nonDoubleVars>>

DoubleNext == DoubleReview

DoubleSpec == DoubleInit /\ [][DoubleNext]_vars

(***************************************************************************)
(* The scorer on its own, over texts of up to MaxWords words.              *)
(***************************************************************************)
MaxWords == 2

\* words of the two lexicons and words of neither
ScorerWords ==
  { "nice", "good", "great", "perfect", "mediocre", "cold", "bland", "worst",
    "Pizza", "soup" }

RECURSIVE TextsUpTo(_)
\* the texts of up to n words, one space between two words
TextsUpTo(n) ==
  IF n = 0 THEN { "" }
  ELSE LET shorter == TextsUpTo(n - 1) IN
       shorter \cup { IF t = "" THEN w ELSE t \o " " \o w :
                        t \in shorter, w \in ScorerWords }

ScorerInit ==
  /\ RankerIdle /\ PairIdle /\ SyncIdle /\ ClientIdle /\ ServerIdle
  /\ NormalizerIdle /\ DoubleIdle
  /\ scoredText \in TextsUpTo(MaxWords)
  /\ scored = FALSE
  /\ textScore = [sign |-> 0, m |-> <<>>, e |-> 0]

\* calculateSentiment(text, dishName) returns
ScoreText ==
  /\ ~scored
  /\ textScore' = calculateSentimentDouble(scoredText, "")
  /\ scored' = TRUE
  /\ UNCHANGED <<scoredText, nonScorerVars>>

ScorerNext == ScoreText

ScorerSpec == ScorerInit /\ [][ScorerNext]_vars


(***************************************************************************)
(* What the properties below speak of.                                     *)
(***************************************************************************)
Done == pc = "done"

Min2(a, b) == IF a < b THEN a ELSE b

\* a record the loop skips: no text, or the empty text
TextLess(r) == ~r.hasText \/ r.text = ""

\* the reviews the loop has merged so far
Processed == { k \in 1..(idx - 1) : ~TextLess(reviews[k]) /\ reviews[k].isString }

\* the canonical names review k mentions
NamesIn(k) ==
  LET ms == Mentions(reviews[k].text) IN { ms[j].name : j \in 1..Len(ms) }

\* the mention of `name` in review k
MentionIn(k, name) ==
  LET ms == Mentions(reviews[k].text) IN ms[IndexOf(ms, name)]

RECURSIVE CountSum(_, _)
\* the occurrence counts of `name` in the reviews ks, summed
CountSum(name, ks) ==
  IF ks = {} THEN 0
  ELSE LET k == CHOOSE j \in ks : TRUE
       IN  MentionIn(k, name).count + CountSum(name, ks \ {k})

RECURSIVE SentSum(_, _)
\* the sentiments of `name` in the reviews ks, summed
SentSum(name, ks) ==
  IF ks = {} THEN Zero
  ELSE LET k == CHOOSE j \in ks : TRUE
       IN  RatAdd(MentionIn(k, name).sentiment, SentSum(name, ks \ {k}))

\* mentionCount * 0.6 + averageSentiment * 10 * 0.4, in tenths, as a rational
BlendedScore(d) ==
  <<6 * d.mentionCount * d.averageSentiment[2] + 40 * d.averageSentiment[1],
    10 * d.averageSentiment[2]>>

\* a has a strictly higher blended score than b
Outranks(a, b) ==
  BlendedScore(a)[1] * BlendedScore(b)[2] > BlendedScore(b)[1] * BlendedScore(a)[2]

\* the one placeholder entry, as the properties describe it
IsPlaceholderResult(r) ==
  /\ Len(r) = 1
  /\ r[1].dishName = "Chef's Special"
  /\ r[1].mentionCount = 0
  /\ r[1].averageSentiment = <<7, 10>>

\* no review of the input yields a valid dish
NoValidDish ==
  \A k \in 1..Len(reviews) :
    TextLess(reviews[k]) \/ Mentions(reviews[k].text) = <<>>

\* the aggregated dishes as output records, in any order
Aggregated == { dishArray(allDishes)[k] : k \in 1..Len(allDishes) }

ResultSet == { result[k] : k \in 1..Len(result) }

(***************************************************************************)
(* C1.  As stated: an empty review sequence yields the single placeholder  *)
(* "Chef's Special" (mentionCount 0, averageSentiment 0.7), and the output *)
(* has at least one entry for every input.                                 *)
(***************************************************************************)
C1_EmptyInputGivesPlaceholder ==
  Done => /\ Len(result) >= 1
          /\ reviews = <<>> => IsPlaceholderResult(result)

\* C1, amended: an empty review sequence yields the empty list; the output
\* has at least one entry for every non-empty input.
C1_EmptyInputGivesEmptyList ==
  Done => /\ reviews = <<>> => result = <<>>
          /\ reviews # <<>> => Len(result) >= 1

C1_Witness == Done /\ reviews = <<>> /\ result = <<>>

(***************************************************************************)
(* C2.  A non-empty review sequence that yields no valid dish (text-less   *)
(* reviews, or texts from which nothing survives) returns exactly the one  *)
(* placeholder entry with mentionCount 0 and averageSentiment 0.7.         *)
(***************************************************************************)
C2_NoDishGivesPlaceholder ==
  (Done /\ reviews # <<>> /\ NoValidDish) => IsPlaceholderResult(result)

C2_Witness ==
  /\ Done
  /\ NoValidDish
  /\ \E k \in 1..Len(reviews) : TextLess(reviews[k])
  /\ \E k \in 1..Len(reviews) : reviews[k].text = "great service, friendly staff"
  /\ IsPlaceholderResult(result)

(***************************************************************************)
(* C3.  The output never has more than 3 entries, however many distinct    *)
(* valid dish names the reviews yield.                                     *)
(***************************************************************************)
C3_AtMostThree == Done => Len(result) <= 3

C3_Witness == Done /\ Len(allDishes) >= 10 /\ Len(result) = 3

(***************************************************************************)
(* C4.  As stated: the bound is the caller's topN; the output is the first *)
(* min(topN, D) entries of the score-sorted list of the D distinct valid   *)
(* dishes, and no omitted dish outranks a returned one.                    *)
(***************************************************************************)
C4_BoundIsCallersTopN ==
  (Done /\ allDishes # <<>>) =>
     /\ Len(result) = Min2(topN, Len(allDishes))
     /\ ResultSet \subseteq Aggregated
     /\ \A o \in Aggregated \ ResultSet : \A r \in ResultSet : ~Outranks(o, r)

\* C4, amended: the bound is the constant 3, whatever the caller asks for;
\* the output is the first min(3, D) entries of the score-sorted list of the
\* D distinct valid dishes (D >= 1), and no omitted dish outranks a returned
\* one.
C4_BoundIsThree ==
  (Done /\ allDishes # <<>>) =>
     /\ Len(result) = Min2(3, Len(allDishes))
     /\ Cardinality(ResultSet) = Len(result)
     /\ ResultSet \subseteq Aggregated
     /\ \A o \in Aggregated \ ResultSet : \A r \in ResultSet : ~Outranks(o, r)
     /\ \A a, b \in 1..Len(result) : a < b => ~Outranks(result[b], result[a])

C4_Witness ==
  /\ Done
  /\ topN = 1
  /\ Len(result) = 3
  /\ \E o \in Aggregated \ ResultSet : \E r \in ResultSet : Outranks(r, o)

C6_MergeByName ==
  /\ \A a, b \in 1..Len(allDishes) : allDishes[a].name = allDishes[b].name => a = b
  /\ \A a, b \in 1..Len(result) : result[a].dishName = result[b].dishName => a = b
  /\ { allDishes[a].name : a \in 1..Len(allDishes) } = UNION { NamesIn(k) : k \in Processed }
  /\ \A a \in 1..Len(allDishes) :
       LET name == allDishes[a].name
           ks == { k \in Processed : name \in NamesIn(k) }
       IN  /\ allDishes[a].reviewCount = Cardinality(ks)
           /\ allDishes[a].mentionCount = CountSum(name, ks)
           /\ allDishes[a].totalSentiment = SentSum(name, ks)
  /\ (Done /\ allDishes # <<>>) =>
       \A r \in ResultSet :
         LET ks == { k \in Processed : r.dishName \in NamesIn(k) }
         IN  /\ ks # {}
             /\ r.mentionCount = CountSum(r.dishName, ks)
             /\ r.averageSentiment = RatDiv(SentSum(r.dishName, ks), Cardinality(ks))

C6_Witness ==
  /\ Done
  /\ \E j, k \in 1..Len(reviews) :
       /\ reviews[j].text = "the pizza was amazing"
       /\ reviews[k].text = "loved the pizza"
  /\ \E a \in 1..Len(allDishes) :
       /\ allDishes[a].name = "Pizza"
       /\ allDishes[a].reviewCount = 2
       /\ allDishes[a].mentionCount = 2
  /\ \E r \in ResultSet : r.dishName = "Pizza" /\ r.mentionCount = 2

(***************************************************************************)
(* The raw candidates of a text, as the two loops of extractDishMentions   *)
(* meet them: per pattern match the string taken (match[2] || match[1]),   *)
(* the dish group of the template and the canonical name; per keyword      *)
(* match the canonical name of match[0].                                   *)
(***************************************************************************)
PatternCandidates(text, p) ==
  LET ms == matchAll(DISH_PATTERNS[p], text, 1) IN
  [j \in 1..Len(ms) |->
     [p |-> p,
      raw |-> RawCandidate(text, ms[j]),
      phrase |-> GroupText(text, ms[j], DishGroup[p]),
      name |-> cleanDishName(RawCandidate(text, ms[j]))]]

AllPatternCandidates(text) ==
  PatternCandidates(text, 1) \o PatternCandidates(text, 2) \o PatternCandidates(text, 3)
    \o PatternCandidates(text, 4) \o PatternCandidates(text, 5)

RECURSIVE KeywordCandidates(_, _, _)
KeywordCandidates(lowerText, kws, k) ==
  IF k > Len(kws) THEN <<>>
  ELSE LET ms == matchAll(KeywordRegex(kws[k]), lowerText, 1) IN
       [j \in 1..Len(ms) |-> cleanDishName(GroupText(lowerText, ms[j], 0))]
         \o KeywordCandidates(lowerText, kws, k + 1)

\* per text of the corpus: its candidates and its sentiment, computed once
CandidateTable ==
  { [text |-> t,
     pattern |-> AllPatternCandidates(t),
     keyword |-> KeywordCandidates(toLowerCase(t), PresentKeywords(toLowerCase(t)), 1),
     totals |-> SentimentTotals(t),
     score |-> calculateSentiment(t, "")] : t \in Corpus }

Candidates(text) == CHOOSE row \in CandidateTable : row.text = text

\* how many valid pattern candidates of the text have this canonical name
PatternCount(text, name) ==
  LET cs == Candidates(text).pattern IN
  Cardinality({ j \in 1..Len(cs) : cs[j].name = name })

\* how many valid keyword candidates of the text have this canonical name
KeywordCount(text, name) ==
  LET cs == Candidates(text).keyword IN
  Cardinality({ j \in 1..Len(cs) : cs[j] = name })

\* the canonical names of the valid candidates of the text
CandidateNames(text) ==
  LET ps == Candidates(text).pattern
      ks == Candidates(text).keyword
  IN  { n \in { ps[j].name : j \in 1..Len(ps) } \cup { ks[j] : j \in 1..Len(ks) } :
          isValidDishName(n) }

\* the average of n sentiments that are each the score of the text
AverageOfScores(text, n) == RatDiv(RatMul(Candidates(text).score, n), n)

InUnit(v) == RatLeq(Zero, v) /\ RatLeq(v, One)

(***************************************************************************)
(* C7.  As stated: within one review the candidates of either strategy     *)
(* that normalize to one valid name merge into one mention whose count is  *)
(* the number of those candidates and whose sentiment is their average.    *)
(***************************************************************************)
C7_CountsEveryCandidate ==
  \A k \in Processed :
    LET text == reviews[k].text
        ms == Mentions(text)
    IN  /\ { ms[j].name : j \in 1..Len(ms) } = CandidateNames(text)
        /\ \A a, b \in 1..Len(ms) : ms[a].name = ms[b].name => a = b
        /\ \A j \in 1..Len(ms) :
             LET n == PatternCount(text, ms[j].name) + KeywordCount(text, ms[j].name)
             IN  /\ ms[j].count = n
                 /\ ms[j].sentiment = AverageOfScores(text, n)

\* C7, amended: within one review the pattern candidates that normalize to
\* one valid name merge into one mention whose count is the number of those
\* pattern candidates and whose sentiment is the average of their
\* sentiments; a keyword candidate adds a mention of count 1 only if the
\* name has no mention yet and is otherwise not counted.
C7_CountsPatternCandidates ==
  \A k \in Processed :
    LET text == reviews[k].text
        ms == Mentions(text)
    IN  /\ { ms[j].name : j \in 1..Len(ms) } = CandidateNames(text)
        /\ \A a, b \in 1..Len(ms) : ms[a].name = ms[b].name => a = b
        /\ \A j \in 1..Len(ms) :
             LET n == PatternCount(text, ms[j].name)
             IN  /\ ms[j].count = (IF n > 0 THEN n ELSE 1)
                 /\ ms[j].sentiment = AverageOfScores(text, IF n > 0 THEN n ELSE 1)

\* a review with a name that several pattern candidates and a keyword
\* candidate produce, and a name that two keyword candidates produce
C7_Witness ==
  \E k \in Processed :
    LET text == reviews[k].text
        ms == Mentions(text)
    IN  /\ \E j \in 1..Len(ms) :
             /\ PatternCount(text, ms[j].name) = 5
             /\ KeywordCount(text, ms[j].name) = 1
             /\ ms[j].count = 5
        /\ \E j \in 1..Len(ms) :
             /\ PatternCount(text, ms[j].name) = 0
             /\ KeywordCount(text, ms[j].name) >= 2
             /\ ms[j].count = 1

(***************************************************************************)
(* C8.  For each of the five templates the raw candidate of a match is     *)
(* the text of the template's dish group, not of the verb, quantifier or   *)
(* adjective group beside it.                                              *)
(***************************************************************************)
C8_CandidateIsDishGroup ==
  \A k \in Processed :
    LET cs == Candidates(reviews[k].text).pattern
    IN  \A j \in 1..Len(cs) : cs[j].raw = cs[j].phrase

(***************************************************************************)
(* C9.  For the reviews "The burger was amazing, best burger ever" and     *)
(* "Loved the burger here" and the bound 3, the first output entry is      *)
(* "Burger" with mentionCount >= 2 and averageSentiment > 0.5.             *)
(***************************************************************************)
C9_BurgerScenario ==
  ( /\ Done
    /\ topN = 3
    /\ reviews = << [hasText |-> TRUE, isString |-> TRUE,
                     text |-> "The burger was amazing, best burger ever"],
                    [hasText |-> TRUE, isString |-> TRUE,
                     text |-> "Loved the burger here"] >> )
  => /\ result[1].dishName = "Burger"
     /\ result[1].mentionCount >= 2
     /\ RatLess(Half, result[1].averageSentiment)

(***************************************************************************)
(* C10.  Every sentiment the engine produces lies in [0, 1]: the score of  *)
(* a review, the sentiment of a mention, bestSentiment and the             *)
(* averageSentiment of every output entry.                                 *)
(***************************************************************************)
C10_SentimentInUnitInterval ==
  /\ \A k \in 1..Len(reviews) :
       ~TextLess(reviews[k]) /\ reviews[k].isString
         => InUnit(Candidates(reviews[k].text).score)
  /\ \A k \in Processed :
       LET ms == Mentions(reviews[k].text)
       IN  \A j \in 1..Len(ms) : InUnit(ms[j].sentiment)
  /\ \A a \in 1..Len(allDishes) : InUnit(allDishes[a].bestSentiment)
  /\ \A r \in Aggregated : InUnit(r.averageSentiment)
  /\ \A r \in ResultSet : InUnit(r.averageSentiment)

\* a review whose matches average above 1 and one whose matches average
\* below 0 have both been merged
C10_Witness ==
  /\ Done
  /\ \E k \in Processed :
       LET row == Candidates(reviews[k].text)
       IN  row.totals[1] > 100 * row.totals[2] /\ Mentions(row.text) # <<>>
  /\ \E k \in Processed :
       LET row == Candidates(reviews[k].text)
       IN  row.totals[1] < 0 /\ Mentions(row.text) # <<>>
  /\ \E r \in ResultSet : r.averageSentiment = One

(***************************************************************************)
(* The lexicon as the properties speak of it: a set of words, each with    *)
(* one score, and the words of it that a text contains.                    *)
(***************************************************************************)
LexiconEntries ==
  { SENTIMENT_POSITIVE[k] : k \in 1..Len(SENTIMENT_POSITIVE) }
    \cup { SENTIMENT_NEGATIVE[k] : k \in 1..Len(SENTIMENT_NEGATIVE) }

\* word occurs in s from position i on, this many times
Occurrences(s, word) ==
  Cardinality({ i \in 1..Len(s) :
                  i + Len(word) - 1 <= Len(s) /\ SubSeq(s, i, i + Len(word) - 1) = word })

\* per text of the corpus: the entries whose word is a substring of the
\* lower-cased text, and whether one of them occurs more than once
LexiconTable ==
  { [text |-> t,
     matched |-> { e \in LexiconEntries : Occurrences(toLowerCase(t), e[1]) > 0 },
     repeated |-> \E e \in LexiconEntries : Occurrences(toLowerCase(t), e[1]) > 1]
    : t \in Corpus }

Matched(text) == (CHOOSE row \in LexiconTable : row.text = text).matched

HasRepeatedWord(text) == (CHOOSE row \in LexiconTable : row.text = text).repeated

RECURSIVE EntrySum(_)
\* the scores of a set of entries, summed, in hundredths
EntrySum(es) ==
  IF es = {} THEN 0
  ELSE LET e == CHOOSE x \in es : TRUE IN e[2] + EntrySum(es \ {e})

\* clamp(0, 1, (0.5 + sum of the matched scores) / number of matched words)
SeededAverage(es) ==
  LET n == 50 + EntrySum(es)
      d == 100 * Cardinality(es)
  IN  IF n < 0 THEN Zero ELSE IF n > d THEN One ELSE Rat(n, d)

(***************************************************************************)
(* C11.  A review whose lower-cased text contains no lexicon word yields   *)
(* sentiment exactly 1/2 for every mention drawn from it.                  *)
(***************************************************************************)
C11_NeutralDefault ==
  \A k \in Processed :
    Matched(reviews[k].text) = {}
      => LET ms == Mentions(reviews[k].text)
         IN  \A j \in 1..Len(ms) : ms[j].sentiment = Half

\* a review without lexicon word has been merged and its dish is returned
\* with the neutral sentiment
C11_Witness ==
  /\ Done
  /\ \E k \in Processed :
       /\ Matched(reviews[k].text) = {}
       /\ \E r \in ResultSet :
            r.dishName \in NamesIn(k) /\ r.averageSentiment = Half

(***************************************************************************)
(* C12.  When at least one lexicon word is a substring of the lower-cased  *)
(* review text, the score of the review, which is the sentiment of every   *)
(* mention drawn from it, is clamp(0, 1, (0.5 + the sum of the scores of   *)
(* the distinct matched words) / the number of distinct matched words): a  *)
(* word counts once however often it occurs, and the seed 0.5 is in the    *)
(* numerator and not counted in the divisor.                               *)
(***************************************************************************)
C12_SeededAverageOfMatched ==
  \A k \in Processed :
    LET es == Matched(reviews[k].text)
        ms == Mentions(reviews[k].text)
    IN  es # {} => \A j \in 1..Len(ms) : ms[j].sentiment = SeededAverage(es)

\* a merged review that repeats a lexicon word, with a score strictly
\* between 0 and 1, and a merged review whose score is clamped to 1
C12_Witness ==
  /\ \E k \in Processed :
       LET es == Matched(reviews[k].text) IN
       /\ HasRepeatedWord(reviews[k].text)
       /\ Mentions(reviews[k].text) # <<>>
       /\ 0 < 50 + EntrySum(es)
       /\ 50 + EntrySum(es) < 100 * Cardinality(es)
  /\ \E k \in Processed :
       LET es == Matched(reviews[k].text) IN
       /\ Mentions(reviews[k].text) # <<>>
       /\ 50 + EntrySum(es) > 100 * Cardinality(es)
  /\ \E r \in ResultSet : r.averageSentiment = One

(***************************************************************************)
(* C13.  Calling the ranker twice on the same sequence of review texts     *)
(* yields identical output: the same names, mention counts, average        *)
(* sentiments, sample texts and order; the first call leaves nothing       *)
(* behind in the module (the lastIndex of the patterns) that changes what  *)
(* the second one returns.                                                 *)
(***************************************************************************)
C13_SameInputSameOutput ==
  /\ lastIndex = FreshLastIndex
  /\ callPc = <<"done", "done">> /\ callReviews[1] = callReviews[2]
       => callResult[1] = callResult[2]

\* the second call was made after the first had returned, on the same two
\* reviews, and both returned three dishes
C13_Witness ==
  /\ callPc = <<"done", "done">>
  /\ ~overlap
  /\ callReviews[1] = callReviews[2]
  /\ Len(callReviews[1]) = 2
  /\ Len(callResult[1]) = 3
  /\ callResult[1] = callResult[2]

(***************************************************************************)
(* A canonical name, character by character.  A character without case (a *)
(* digit, the underscore) counts as upper-case and as lower-case.          *)
(***************************************************************************)
\* the words of a name: its maximal runs of characters other than the space
WordsOf(name) ==
  LET starts == { i \in 1..Len(name) :
                    At(name, i) # " " /\ (i = 1 \/ At(name, i - 1) = " ") }
  IN  { <<i, CHOOSE j \in i..Len(name) :
               /\ \A k \in i..j : At(name, k) # " "
               /\ (j = Len(name) \/ At(name, j + 1) = " ")>> : i \in starts }

IsCanonical(name) ==
  /\ \A i \in 1..Len(name) : At(name, i) \in WordChars \cup {" "}
  /\ Len(name) >= 3 /\ Len(name) <= 40
  /\ At(name, 1) # " " /\ At(name, Len(name)) # " "
  /\ \A i \in 1..(Len(name) - 1) : ~(At(name, i) = " " /\ At(name, i + 1) = " ")
  /\ \A w \in WordsOf(name) :
       /\ At(name, w[1]) \notin CharsOf(Lower)
       /\ \A i \in (w[1] + 1)..w[2] : At(name, i) \notin CharsOf(Upper)
  /\ Cardinality(WordsOf(name)) <= 5

\* every word of the name, lower-cased, is a stop word
AllStopWords(name) ==
  \A w \in WordsOf(name) : toLowerCase(SubSeq(name, w[1], w[2])) \in invalidWords

(***************************************************************************)
(* C14.  Every name in the output other than the placeholder is canonical: *)
(* only word characters separated by single spaces, no leading or trailing *)
(* space, each word with its first character upper-case and the rest       *)
(* lower-case, 3 to 40 characters, at most 5 words.                        *)
(***************************************************************************)
C14_OutputNamesCanonical ==
  \A r \in ResultSet : r # Placeholder => IsCanonical(r.dishName)

\* the output holds a name of two words, the first of which is a number
C14_Witness ==
  /\ Done
  /\ \E r \in ResultSet :
       /\ Cardinality(WordsOf(r.dishName)) = 2
       /\ At(r.dishName, 1) \in CharsOf(Digits)

(***************************************************************************)
(* C15.  No output entry has a name all of whose words, compared           *)
(* case-insensitively, are stop words; the raw candidate "the staff"       *)
(* normalizes to "The Staff", which is rejected.                           *)
(***************************************************************************)
C15_NoStopWordNames ==
  /\ cleanDishName("the staff") = "The Staff"
  /\ ~isValidDishName("The Staff")
  /\ \A r \in ResultSet : ~AllStopWords(r.dishName)
  /\ \A a \in 1..Len(allDishes) : ~AllStopWords(allDishes[a].name)

\* a merged review has a pattern candidate made of stop words only, and
\* the output holds the other dishes of that review
C15_Witness ==
  /\ Done
  /\ \E k \in Processed :
       LET cs == Candidates(reviews[k].text).pattern IN
       /\ \E j \in 1..Len(cs) : cs[j].name # "" /\ AllStopWords(cs[j].name)
       /\ \E r \in ResultSet : r.dishName \in NamesIn(k)

(***************************************************************************)
(* C16.  The engine never raises: for every input sequence of review       *)
(* records, including records whose text is missing, empty or otherwise    *)
(* malformed, the ranker returns a result instead of throwing.             *)
(***************************************************************************)
C16_NeverRaises == pc # "threw"

(***************************************************************************)
(* C17.  A review record whose text is missing or the empty string is      *)
(* skipped silently: it raises nothing, and the aggregation built over the *)
(* reviews gone through is the one built over the same reviews with every  *)
(* such record removed.                                                    *)
(***************************************************************************)
\* the reviews gone through so far, without the text-less ones
KeptPrefix ==
  SelectSeq(SubSeq(reviews, 1, idx - 1), LAMBDA r : ~TextLess(r))

RECURSIVE MergeAll(_, _, _)
\* the mentions of every review of revs, from review k on, merged
MergeAll(all, revs, k) ==
  IF k > Len(revs) THEN all
  ELSE MergeAll(MergeReview(all, Mentions(revs[k].text), 1), revs, k + 1)

C17_TextLessSkipped ==
  /\ pc = "threw" => \E k \in 1..(idx - 1) : reviews[k].hasText /\ ~reviews[k].isString
  /\ pc # "threw" => allDishes = MergeAll(<<>>, KeptPrefix, 1)

\* a text-less record was gone through before a review that yields dishes
C17_Witness ==
  /\ Done
  /\ Len(reviews) = 2
  /\ TextLess(reviews[1])
  /\ allDishes # <<>>

(***************************************************************************)
(* C18.  For every aggregated dish, bestSentiment is the maximum           *)
(* per-review sentiment among the reviews that mention it, and the sample  *)
(* is the excerpt (the first 200 characters at most) of the earliest       *)
(* review in input order that attains that maximum; a later review with an *)
(* equal sentiment never replaces the sample.                              *)
(***************************************************************************)
\* the first 200 characters of a text
Excerpt(text) == SubSeq(text, 1, Min2(200, Len(text)))

C18_BestSentimentEarliestSample ==
  \A a \in 1..Len(allDishes) :
    LET name == allDishes[a].name
        ks == { k \in Processed : name \in NamesIn(k) }
        top == { k \in ks : \A j \in ks :
                   RatLeq(MentionIn(j, name).sentiment, MentionIn(k, name).sentiment) }
        first == CHOOSE k \in top : \A j \in top : k <= j
    IN  /\ allDishes[a].bestSentiment = MentionIn(first, name).sentiment
        /\ allDishes[a].sampleReview = Excerpt(reviews[first].text)

\* two different reviews mention a dish with equal sentiment, the first
\* is longer than 200 characters, and its excerpt is the sample returned
C18_Witness ==
  /\ Done
  /\ Processed = {1, 2}
  /\ reviews[1].text # reviews[2].text
  /\ Len(reviews[1].text) > 200
  /\ \E r \in ResultSet :
       /\ r.dishName \in NamesIn(1) \cap NamesIn(2)
       /\ MentionIn(1, r.dishName).sentiment = MentionIn(2, r.dishName).sentiment
       /\ r.sampleReview = Excerpt(reviews[1].text)
       /\ Len(r.sampleReview) = 200

(***************************************************************************)
(* C19.  Invocations of the ranker for different restaurants share no      *)
(* mutable state: when two invocations on different review sets are        *)
(* interleaved in any order, each returns exactly what it returns when run *)
(* alone, and each aggregates into its own map, which holds the mentions   *)
(* of its own reviews only.                                                *)
(***************************************************************************)
C19_InvocationsIndependent ==
  \A c \in DOMAIN callPc :
    /\ callPc[c] = "loop"
         => callDishes[c] =
              analyzeLoop(<<>>, SubSeq(callReviews[c], 1, callIdx[c] - 1), 1)
    /\ callPc[c] = "done" => callResult[c] = getTopDishes(callReviews[c])

\* two invocations on different reviews that mention the same dish have
\* returned different results, after steps of one inside the other's loop
C19_Witness ==
  /\ callPc = <<"done", "done">>
  /\ overlap
  /\ callReviews[1] # callReviews[2]
  /\ callDishes[1] # <<>> /\ callDishes[2] # <<>>
  /\ \E a \in 1..Len(callDishes[1]) : \E b \in 1..Len(callDishes[2]) :
       callDishes[1][a].name = callDishes[2][b].name
  /\ callResult[1] # callResult[2]

(***************************************************************************)
(* C20.  Offline sync removes a pending search from the offline queue only *)
(* after that search has been pushed successfully to /api/sync/push: a     *)
(* search whose push failed is still in the queue, so that a later sync    *)
(* pushes it, unless the server has received it meanwhile.                 *)
(***************************************************************************)
C20_FailedPushStaysQueued ==
  \A search \in failedLog : search \in offlineQueue \/ pushed[search] > 0


(***************************************************************************)
(* C21.  Under the network-first strategy for API calls a request that     *)
(* fails because the network is unavailable is queued for later sync,      *)
(* whether or not it is also answered from a cache: whenever the last      *)
(* request met an unavailable network, its handler added it to the queue.  *)
(***************************************************************************)
C21_NetworkFailureQueued == answer.networkFailed => answer.queuedIt

(***************************************************************************)
(* C22.  A repeat of a server search (same zip, cuisine and mealtime) made *)
(* within one hour of a search that stored at least 3 restaurants is       *)
(* served from the SQLite cache, without a call of the maps provider,      *)
(* whatever searches were served in between: a response to a search whose  *)
(* key was stored with at least 3 restaurants less than 3600 seconds       *)
(* before has the source "cache".                                          *)
(***************************************************************************)
C22_RepeatServedFromCache == response.withinHour => response.source = "cache"

(***************************************************************************)
(* C30.  The top dishes the server returns from its cache for a restaurant *)
(* are the ones the engine computed: in a response from the cache, the     *)
(* list of every restaurant has the same dish names, in the same order and *)
(* with the same mentionCount, as the last list getTopDishes returned for  *)
(* that restaurant.                                                        *)
(***************************************************************************)
C30_CacheReturnsEngineDishes ==
  response.source = "cache" =>
    \A id \in DOMAIN response.topDishes :
      /\ Len(response.topDishes[id]) = Len(engineTop[id])
      /\ \A j \in 1..Len(engineTop[id]) :
           /\ response.topDishes[id][j].dish_name = engineTop[id][j].dishName
           /\ response.topDishes[id][j].mention_count
                = engineTop[id][j].mentionCount

(***************************************************************************)
(* C23.  The normalizer returns its input lower-cased, stripped of every   *)
(* character that is no word character and no whitespace, with whitespace  *)
(* runs collapsed to one space, trimmed, and each word title-cased; it     *)
(* maps empty and punctuation-only input to the empty string, and it is    *)
(* idempotent.  The description is read character by character: a kept     *)
(* character that is no whitespace is written, upper-cased if it begins a  *)
(* word; a whitespace character is written as one space if it ends a run   *)
(* of whitespace that has a word before it and a word after it.            *)
(***************************************************************************)
\* the characters of x that are kept, lower-cased, in their order
KeptChars(x) ==
  LET at == { i \in 1..Len(x) : At(x, i) \in WordChars \cup SpaceChars }
      pos == SortedSeq(at)
  IN  [k \in 1..Len(pos) |-> LowerChar(At(x, pos[k]))]

\* what the description writes for the k-th kept character
Written(kept, k) ==
  IF kept[k] \in SpaceChars
  THEN IF /\ \E j \in 1..(k - 1) : kept[j] \notin SpaceChars
          /\ k < Len(kept) /\ kept[k + 1] \notin SpaceChars
       THEN " " ELSE ""
  ELSE IF k = 1 \/ kept[k - 1] \in SpaceChars
       THEN UpperChar(kept[k]) ELSE kept[k]

RECURSIVE WrittenFrom(_, _)
WrittenFrom(kept, k) ==
  IF k > Len(kept) THEN "" ELSE Written(kept, k) \o WrittenFrom(kept, k + 1)

\* the normal form the description gives x
NormalFormOf(x) == WrittenFrom(KeptChars(x), 1)

\* x has no word character
NoWordChar(x) == \A i \in 1..Len(x) : At(x, i) \notin WordChars

C23_NormalizerDescribedAndIdempotent ==
  /\ Len(cleanNames) >= 1 =>
       /\ cleanNames[1] = NormalFormOf(rawName)
       /\ NoWordChar(rawName) => cleanNames[1] = ""
  /\ Len(cleanNames) = 2 => cleanNames[2] = cleanNames[1]

\* a name with an upper-case letter, punctuation and a whitespace run has been
\* normalized twice
C23_Witness ==
  /\ Len(cleanNames) = 2
  /\ rawName = "B-\ta"
  /\ cleanNames[1] = "B A"

(***************************************************************************)
(* C24.  Sentiment is a function of the whole review text only: all the    *)
(* mentions extracted from one review, whatever their dish name and        *)
(* whichever strategy produced them, carry one and the same sentiment, the *)
(* score of the review text, also where a candidate repeated within the    *)
(* review has been averaged.                                               *)
(***************************************************************************)
\* the score of a review text: 1/2 without a lexicon word, else the clamped
\* seeded average of the matched words
ReviewScore(text) ==
  IF Matched(text) = {} THEN Half ELSE SeededAverage(Matched(text))

FirstReview(name) ==
  CHOOSE k \in Processed :
    /\ name \in NamesIn(k)
    /\ \A j \in Processed : name \in NamesIn(j) => k <= j

\* the name is found in its first review by the keywords only
KeywordOnly(name) == PatternCount(reviews[FirstReview(name)].text, name) = 0

\* the name of a was inserted into the map after the name of b, as far as the
\* review and the strategy tell
InsertedAfter(a, b) ==
  \/ FirstReview(a.dishName) > FirstReview(b.dishName)
  \/ /\ FirstReview(a.dishName) = FirstReview(b.dishName)
     /\ KeywordOnly(a.dishName) /\ ~KeywordOnly(b.dishName)

\* a and b have equal blended scores
Tied(a, b) == ~Outranks(a, b) /\ ~Outranks(b, a)

C25_TiesKeepInsertionOrder ==
  (Done /\ ~IsPlaceholderResult(result)) =>
    \A i \in 1..Len(result) : \A j \in (i + 1)..Len(result) :
      Tied(result[i], result[j]) => ~InsertedAfter(result[i], result[j])

\* three dishes of equal score are returned, the first two from the first
\* review, the third from the second
C25_Witness ==
  /\ Done /\ Len(result) = 3 /\ ~IsPlaceholderResult(result)
  /\ Tied(result[1], result[2])
  /\ Tied(result[2], result[3])
  /\ FirstReview(result[1].dishName) = 1
  /\ FirstReview(result[2].dishName) = 1
  /\ FirstReview(result[3].dishName) = 2

(***************************************************************************)
(* C26: after any prefix of the reviews, every entry of the aggregation    *)
(* map has 1 <= reviewCount <= mentionCount, reviewCount at most the       *)
(* number of non-empty reviews processed, 0 <= totalSentiment <=           *)
(* reviewCount, and bestSentiment >= totalSentiment / reviewCount.         *)
(* In double precision the last part fails: three reviews of score 0.925   *)
(* sum to 2.7750000000000004, a third of which is 0.9250000000000002.      *)
(* What holds in its place: bestSentiment is not below any merged          *)
(* sentiment of the name, and not below the quotient for up to two         *)
(* reviews.                                                                *)
(***************************************************************************)
\* the non-empty reviews the loop in double precision has processed
DoubleProcessed == { r \in 1..(dblIdx - 1) : dblReviews[r] # "" }

\* the sentiments merged so far under a name
MergedSentiments(name) ==
  UNION { { DoubleMentions(dblReviews[r])[j].sentiment :
              j \in { i \in 1..Len(DoubleMentions(dblReviews[r])) :
                        DoubleMentions(dblReviews[r])[i].name = name } } :
          r \in DoubleProcessed }

\* the counts and the total of one entry are in range
CountsInRange(d) ==
  /\ 1 <= d.reviewCount
  /\ d.reviewCount <= d.mentionCount
  /\ d.reviewCount <= Cardinality(DoubleProcessed)
  /\ ~DoubleLess(d.totalSentiment, DoubleZero)
  /\ ~DoubleLess(DoubleOfNat(d.reviewCount), d.totalSentiment)

\* C26 as stated: bestSentiment is never below the average
C26_BestNotBelowAverage ==
  \A k \in 1..Len(dblDishes) :
    /\ CountsInRange(dblDishes[k])
    /\ ~DoubleLess(dblDishes[k].bestSentiment, averageSentimentDouble(dblDishes[k]))

\* C26 amended: the counts and the total are in range, bestSentiment is not
\* below any sentiment merged under the name, and for up to two reviews it
\* is not below the average
C26_AggregationInvariants ==
  \A k \in 1..Len(dblDishes) :
    /\ CountsInRange(dblDishes[k])
    /\ \A s \in MergedSentiments(dblDishes[k].name) :
         ~DoubleLess(dblDishes[k].bestSentiment, s)
    /\ dblDishes[k].bestSentiment \in MergedSentiments(dblDishes[k].name)
    /\ dblDishes[k].reviewCount <= 2 =>
         ~DoubleLess(dblDishes[k].bestSentiment, averageSentimentDouble(dblDishes[k]))

\* three reviews have been merged under one name whose average is above
\* the best of them
C26_Witness ==
  \E k \in 1..Len(dblDishes) :
    /\ dblDishes[k].reviewCount = 3
    /\ DoubleLess(dblDishes[k].bestSentiment, averageSentimentDouble(dblDishes[k]))

(***************************************************************************)
(* C27: for any permutation of the reviews the aggregation map has the     *)
(* same names, each with the same mentionCount, reviewCount, bestSentiment *)
(* and averageSentiment.  In double precision the sum of three sentiments  *)
(* depends on the order they are added in, and the average with it; the    *)
(* names, the counts and bestSentiment do not depend on the order.         *)
(***************************************************************************)
\* the permutations of the positions of the reviews
ReviewOrders ==
  { p \in [1..Len(dblReviews) -> 1..Len(dblReviews)] :
      \A a, b \in 1..Len(dblReviews) : a # b => p[a] # p[b] }

\* the aggregation map of the reviews taken in the order p
MapInOrder(p) ==
  analyzeLoopDouble(<<>>, [k \in 1..Len(dblReviews) |-> dblReviews[p[k]]], 1)

NamesOf(all) == { all[k].name : k \in 1..Len(all) }

EntryOf(all, name) == all[IndexOf(all, name)]

\* two maps have the same names with the same counts and bestSentiment
SameCounts(a, b) ==
  /\ NamesOf(a) = NamesOf(b)
  /\ \A name \in NamesOf(a) :
       /\ EntryOf(a, name).mentionCount = EntryOf(b, name).mentionCount
       /\ EntryOf(a, name).reviewCount = EntryOf(b, name).reviewCount
       /\ EntryOf(a, name).bestSentiment = EntryOf(b, name).bestSentiment

\* C27 as stated: the averages are the same in every order as well
C27_AveragesOrderIndependent ==
  dblIdx > Len(dblReviews) =>
    \A p \in ReviewOrders :
      /\ SameCounts(dblDishes, MapInOrder(p))
      /\ \A name \in NamesOf(dblDishes) :
           averageSentimentDouble(EntryOf(dblDishes, name))
             = averageSentimentDouble(EntryOf(MapInOrder(p), name))

\* C27 amended: names, mentionCount, reviewCount and bestSentiment are the
\* same in every order, and so is the average of a name of up to two reviews
C27_CountsOrderIndependent ==
  dblIdx > Len(dblReviews) =>
    \A p \in ReviewOrders :
      /\ SameCounts(dblDishes, MapInOrder(p))
      /\ \A name \in NamesOf(dblDishes) :
           EntryOf(dblDishes, name).reviewCount <= 2 =>
             averageSentimentDouble(EntryOf(dblDishes, name))
               = averageSentimentDouble(EntryOf(MapInOrder(p), name))

\* the loop is through three reviews that mention one name with three
\* different sentiments, and another order of them gives another average
C27_Witness ==
  /\ dblIdx > Len(dblReviews)
  /\ \E name \in NamesOf(dblDishes) :
       /\ EntryOf(dblDishes, name).reviewCount = 3
       /\ Cardinality(MergedSentiments(name)) = 3
       /\ \E p \in ReviewOrders :
            averageSentimentDouble(EntryOf(dblDishes, name))
              # averageSentimentDouble(EntryOf(MapInOrder(p), name))

(***************************************************************************)
(* C28: the 0.5 seed is added to the total and not counted in the divisor, *)
(* so a review whose only lexicon match is one positive word scores        *)
(* exactly 1, a review whose matches are all positive scores strictly      *)
(* above the plain mean of the matched scores, and a review whose only     *)
(* match is one negative word scores at most 0.1.                          *)
(***************************************************************************)
\* the entries of a lexicon whose word the text includes
Hits(text, lexicon) ==
  { k \in 1..Len(lexicon) : includes(toLowerCase(text), lexicon[k][1]) }

RECURSIVE SumDouble(_, _, _)
\* the scores of the entries hit of a lexicon added up, from entry k on
SumDouble(lexicon, hit, k) ==
  IF k > Len(lexicon) THEN DoubleZero
  ELSE IF k \in hit
  THEN DoubleAdd(DoubleOfHundredths(lexicon[k][2]), SumDouble(lexicon, hit, k + 1))
  ELSE SumDouble(lexicon, hit, k + 1)

\* the plain mean of the matched positive scores, as a double and exactly
MeanDouble(text) ==
  LET hit == Hits(text, SENTIMENT_POSITIVE) IN
  DoubleDivNat(SumDouble(SENTIMENT_POSITIVE, hit, 1), Cardinality(hit))

MeanExact(text) ==
  LET hit == Hits(text, SENTIMENT_POSITIVE) IN
  Rat(SumScores(SENTIMENT_POSITIVE, hit), 100 * Cardinality(hit))

C28_SeedLiftsScore ==
  scored =>
    LET pos == Hits(scoredText, SENTIMENT_POSITIVE)
        neg == Hits(scoredText, SENTIMENT_NEGATIVE)
    IN  /\ (Cardinality(pos) = 1 /\ neg = {}) => textScore = DoubleOfNat(1)
        /\ (pos # {} /\ neg = {}) =>
             /\ DoubleLess(MeanDouble(scoredText), textScore)
             /\ RatLess(MeanExact(scoredText), calculateSentiment(scoredText, ""))
        /\ (pos = {} /\ Cardinality(neg) = 1) =>
             ~DoubleLess(DoubleOfHundredths(10), textScore)

\* a text whose two matches are positive has been scored below 1
C28_Witness ==
  /\ scored
  /\ Cardinality(Hits(scoredText, SENTIMENT_POSITIVE)) = 2
  /\ Hits(scoredText, SENTIMENT_NEGATIVE) = {}
  /\ DoubleLess(textScore, DoubleOfNat(1))

(***************************************************************************)
(* C29.  No queued offline search is lost or duplicated when operations    *)
(* interleave: a search added while a sync is between reading the pending  *)
(* list and clearing the queue is not removed without being pushed, and    *)
(* when the window's sync and the service worker's sync both run, each     *)
(* queued search is pushed to the server at most once.                     *)
(***************************************************************************)
\* the searches queued so far
EverQueued == 1..(nextId - 1)

\* a search gone from the queue was sent to the server by some sync, with
\* or without success
C29_NotRemovedUnsent ==
  \A search \in EverQueued :
    search \notin offlineQueue => pushed[search] > 0 \/ search \in failedLog

\* the server has received no search twice
C29_PushedAtMostOnce == \A search \in EverQueued : pushed[search] <= 1

C29_NoLossNoDuplicate == C29_NotRemovedUnsent /\ C29_PushedAtMostOnce

=============================================================================
